---- MODULE Spec2Model ----
(***************************************************************************)
(* Burst-segmented raster addressing of the SCT channel managers           *)
(* (sct/io/quality_input_from_asar_product.py and its ICEYE twin).         *)
(*                                                                         *)
(* Times and range values are integers (ticks); the results of the float   *)
(* divisions of times_to_pixel_conversion are exact rationals <<n, d>> in  *)
(* lowest terms, so that a round trip is exact only when the arithmetic    *)
(* really inverts.                                                         *)
(***************************************************************************)
EXTENDS Integers, Sequences, FiniteSets, TLC

VARIABLES
    channel,    \* self._channel: the metadata returned by read_channel_metadata
    mgr,        \* the channel manager: construction status and derived state
    call,       \* the last call made on the manager: operation, arguments, outcome
    threads,    \* the calls concurrent callers have in progress on the manager
    configuration,  \* an SCTConfiguration, the file it was dumped to, what was read back
    watchdog,   \* a run of download_watchdog and the directory it watches
    run         \* a run of one of the analysis functions: its inputs, its position, its effects

vars == <<channel, mgr, call, threads, configuration, watchdog, run>>

\* what the channel manager does not touch
elsewhere == <<threads, configuration, watchdog, run>>

----------------------------------------------------------------------------
(* Bounds of the model *)

MaxBursts == 2
MaxLinesPerBurst == 2
MaxSamples == 2
MaxStep == 2
MaxBatch == 2
T0 == 10
R0 == 5
MaxTimeout == 2
MaxNewFiles == 2

None == -1

\* arepytools.constants.LIGHT_SPEED, m/s
LIGHT_SPEED == 299792458

----------------------------------------------------------------------------
(* Arithmetic helpers *)

Abs(x) == IF x < 0 THEN -x ELSE x

Max(S) == CHOOSE x \in S : \A y \in S : y <= x

RECURSIVE GCD(_, _)
GCD(a, b) == IF b = 0 THEN a ELSE GCD(b, a % b)

\* Python's true division of two integers, as an exact rational in lowest terms
TrueDiv(n, d) ==
    LET g == GCD(Abs(n), d)
    IN  <<n \div g, d \div g>>

\* rational + integer
AddInt(q, k) == TrueDiv(q[1] + k * q[2], q[2])

Whole(k) == <<k, 1>>

\* rational * rational, rational / rational (the divisor positive)
RatMul(p, q) == TrueDiv(p[1] * q[1], p[2] * q[2])

RatDiv(p, q) == TrueDiv(p[1] * q[2], p[2] * q[1])

RECURSIVE SeqsOfLen(_, _)
SeqsOfLen(S, n) ==
    IF n = 0 THEN {<<>>}
    ELSE {Append(s, x) : s \in SeqsOfLen(S, n - 1), x \in S}

\* the batches handed to a batch call: every single input, and every batch of
\* 2..MaxBatch inputs taken among the probes (the inputs at the edges)
Batches(inputs, probes) ==
    {<<x>> : x \in inputs} \cup UNION {SeqsOfLen(probes, n) : n \in 2..MaxBatch}

----------------------------------------------------------------------------
(* Outcomes of a call *)

Return(v) == [raised |-> "", value |-> v]
Raise(e) == [raised |-> e, value |-> <<>>]

NoCall == [op |-> "", args |-> <<>>, out |-> Return(<<>>)]

\* no concurrent caller, no configuration at hand, no watchdog running, no
\* analysis running
NoThreads == <<>>

NoConfiguration == [phase |-> "none"]

NoWatchdog == [pc |-> "none"]

NoRun == [pc |-> "none"]

----------------------------------------------------------------------------
(* The metadata a reader can hand to the manager *)

\* start times of n bursts, first + b * stride for burst b
StartTimes(n, first, stride) == [i \in 1..n |-> first + (i - 1) * stride]

\* bursts all starting together, overlapping by one tick, contiguous, or
\* separated by a gap of one tick
Strides(window) == {0, window - 1, window, window + 1}

\* the radiometric quantity of the samples of the product
image_radiometric_quantity == "BETA_NOUGHT"

Projections == {"SLANT RANGE", "GROUND RANGE"}

\* the conversion surface is constant in azimuth (0) or not (1); the surface
\* of a slant-range product is never evaluated
Slopes(p) == IF p = "GROUND RANGE" THEN {0, 1} ELSE {0}

Rasters ==
    {[samples |-> s, samples_step |-> ss, projection |-> p, slope |-> k] :
        s \in {1, MaxSamples}, ss \in {1, MaxStep}, p \in Projections, k \in {0, 1}}

BurstInfos ==
    UNION {{[num |-> n, lines_per_burst |-> l, lines_step |-> ls, azimuth_start_times |-> st] :
                st \in {StartTimes(n, T0, d) : d \in Strides(l * ls)}} :
           n \in 1..MaxBursts, l \in {1, MaxLinesPerBurst}, ls \in {1, MaxStep}}

\* a product without bursts: burst_info.num = 0; the reader leaves the start
\* times empty or fills in the start of the raster
NoBurstInfos ==
    {[num |-> 0, lines_per_burst |-> l, lines_step |-> ls, azimuth_start_times |-> st] :
        l \in {1, MaxLinesPerBurst}, ls \in {1, MaxStep}, st \in {<<>>, <<T0>>}}

MakeChannel(b, r, nlines) ==
    [has_burst_info |-> TRUE,
     num |-> b.num, lines_per_burst |-> b.lines_per_burst,
     azimuth_start_times |-> b.azimuth_start_times,
     lines |-> nlines, lines_step |-> b.lines_step, lines_start |-> T0,
     samples |-> r.samples, samples_step |-> r.samples_step, samples_start |-> R0,
     projection |-> r.projection, slope |-> r.slope]

Channels ==
    {MakeChannel(b, r, b.num * b.lines_per_burst) :
        b \in BurstInfos, r \in {x \in Rasters : x.slope \in Slopes(x.projection)}}
    \cup
    {MakeChannel(b, r, b.lines_per_burst) :
        b \in NoBurstInfos, r \in {x \in Rasters : x.slope \in Slopes(x.projection)}}

\* metadata without any burst_info object
ChannelsWithoutBurstInfo ==
    {[c EXCEPT !.has_burst_info = FALSE] : c \in {x \in Channels : x.num = 0 /\ x.samples = 1}}

----------------------------------------------------------------------------
(* External collaborators *)

\* coordinate_conversions: a surface over (azimuth time, ground range) and its
\* inverse at the same azimuth time
evaluate_ground_to_slant(c, azimuth_time, ground_range) ==
    ground_range + c.slope * (azimuth_time - c.lines_start)

evaluate_slant_to_ground(c, azimuth_time, slant_range) ==
    slant_range - c.slope * (azimuth_time - c.lines_start)

----------------------------------------------------------------------------
(* Construction: axes and burst layout *)

\* the azimuth axis counted from lines_start over the whole raster, bursts or not
_compute_azimuth_axis_Global(c) ==
    IF c.num > 0
    THEN [i \in 1..(c.num * c.lines_per_burst) |-> (i - 1) * c.lines_step + c.lines_start]
    ELSE [i \in 1..c.lines |-> (i - 1) * c.lines_step + c.lines_start]

_compute_azimuth_axis(c) ==
    IF c.num > 0
    THEN [i \in 1..(c.num * c.lines_per_burst) |->
            c.azimuth_start_times[((i - 1) \div c.lines_per_burst) + 1]
            + ((i - 1) % c.lines_per_burst) * c.lines_step]
    ELSE [i \in 1..c.lines |-> (i - 1) * c.lines_step + c.lines_start]

_range_axis(c) == [i \in 1..c.samples |-> (i - 1) * c.samples_step + c.samples_start]

_compute_slant_range_axis(c, az_time_half_swath) ==
    IF c.projection = "GROUND RANGE"
    THEN [i \in 1..c.samples |-> evaluate_ground_to_slant(c, az_time_half_swath, _range_axis(c)[i])]
    ELSE _range_axis(c)

_get_raster_layout(c) ==
    IF c.num > 0
    THEN [az |-> [i \in 1..Len(c.azimuth_start_times) |->
                    <<c.azimuth_start_times[i],
                      c.azimuth_start_times[i] + c.lines_per_burst * c.lines_step>>],
          rng |-> [i \in 1..Len(c.azimuth_start_times) |->
                    <<c.samples_start, c.samples_start + c.samples * c.samples_step>>]]
    ELSE [az |-> << <<c.lines_start, c.lines_start + c.lines * c.lines_step>> >>,
          rng |-> << <<c.samples_start, c.samples_start + c.samples * c.samples_step>> >>]

\* the range time at half swath; on a ground-range product the slant range of
\* the floor of it at the mid azimuth time
_rng_time_half_swath(c, az_time_half_swath) ==
    LET rng_time_half_swath ==
            TrueDiv(2 * c.samples_start + (c.samples - 1) * c.samples_step, 2)
    IN  IF c.projection = "GROUND RANGE"
        THEN Whole(evaluate_ground_to_slant(c, az_time_half_swath,
                                            rng_time_half_swath[1] \div rng_time_half_swath[2]))
        ELSE rng_time_half_swath

_compute_range_step_m(c) ==
    IF c.projection = "GROUND RANGE"
    THEN Whole(c.samples_step)
    ELSE TrueDiv(c.samples_step * LIGHT_SPEED, 2)

NotBuilt == [state |-> "new"]

Failed(e) == [state |-> "failed", error |-> e]

__init__(c) ==
    IF ~c.has_burst_info THEN Failed("AttributeError")
    ELSE LET axis == _compute_azimuth_axis(c)
         IN  IF Len(axis) = 0 THEN Failed("IndexError")
             ELSE LET half == axis[(Len(axis) \div 2) + 1]
                      layout == _get_raster_layout(c)
                  IN  [state |-> "ready",
                       _azimuth_axis |-> axis,
                       _az_time_half_swath |-> half,
                       _range_axis |-> _range_axis(c),
                       _slant_range_axis |-> _compute_slant_range_axis(c, half),
                       _lines_per_burst_array |->
                           IF c.num > 0 THEN [i \in 1..c.num |-> c.lines_per_burst]
                           ELSE <<c.lines>>,
                       _burst_az_boundaries |-> layout.az,
                       _burst_rng_boundaries |-> layout.rng,
                       _radiometric_quantity |-> image_radiometric_quantity,
                       _rng_time_half_swath |-> _rng_time_half_swath(c, half),
                       _range_step_m |-> _compute_range_step_m(c)]

----------------------------------------------------------------------------
(* Burst association *)

\* MaskedArgmin returning the last index holding the minimum
MaskedArgmin_LastOnTies(diff) ==
    LET unmasked == {i \in 1..Len(diff) : diff[i] >= 0}
    IN  IF unmasked = {} THEN 0
        ELSE (CHOOSE i \in unmasked :
                /\ \A j \in unmasked : diff[i] <= diff[j]
                /\ \A j \in unmasked : diff[j] = diff[i] => j <= i) - 1

\* MaskedArgmin masking the entries above 0 (masked_greater for masked_less)
MaskedArgmin_MaskedGreater(diff) ==
    LET unmasked == {i \in 1..Len(diff) : diff[i] <= 0}
    IN  IF unmasked = {} THEN 0
        ELSE (CHOOSE i \in unmasked :
                /\ \A j \in unmasked : diff[i] <= diff[j]
                /\ \A j \in unmasked : diff[j] = diff[i] => i <= j) - 1

\* np.ma.masked_less(diff, 0).argmin(): entries below 0 are masked and filled
\* with the largest value; the first index holding the minimum is returned
\* (0-based; 0 when everything is masked)
MaskedArgmin(diff) ==
    LET unmasked == {i \in 1..Len(diff) : diff[i] >= 0}
    IN  IF unmasked = {} THEN 0
        ELSE (CHOOSE i \in unmasked :
                /\ \A j \in unmasked : diff[i] <= diff[j]
                /\ \A j \in unmasked : diff[j] = diff[i] => i <= j) - 1

\* TimesLoop rejecting the nominal end itself (>= for >)
RECURSIVE TimesLoop_EndExclusive(_, _, _, _)
TimesLoop_EndExclusive(c, azimuth_times, k, bursts) ==
    IF k > Len(azimuth_times) THEN Return(bursts)
    ELSE LET time == azimuth_times[k]
             bursts_start_times == c.azimuth_start_times
             last_time == bursts_start_times[1] + c.num * c.lines_per_burst * c.lines_step
         IN  IF time < bursts_start_times[1] \/ time >= last_time
             THEN Raise("CoordinatesOutOfBounds")
             ELSE LET time_diff == [i \in 1..Len(bursts_start_times) |-> time - bursts_start_times[i]]
                  IN  TimesLoop_EndExclusive(c, azimuth_times, k + 1,
                                             Append(bursts, MaskedArgmin(time_diff)))

\* the loop of times_to_burst_association over azimuth_times[k..], with the
\* associations collected so far
RECURSIVE TimesLoop(_, _, _, _)
TimesLoop(c, azimuth_times, k, bursts) ==
    IF k > Len(azimuth_times) THEN Return(bursts)
    ELSE LET time == azimuth_times[k]
             bursts_start_times == c.azimuth_start_times
             last_time == bursts_start_times[1] + c.num * c.lines_per_burst * c.lines_step
         IN  IF time < bursts_start_times[1] \/ time > last_time
             THEN Raise("CoordinatesOutOfBounds")
             ELSE LET time_diff == [i \in 1..Len(bursts_start_times) |-> time - bursts_start_times[i]]
                  IN  TimesLoop(c, azimuth_times, k + 1, Append(bursts, MaskedArgmin(time_diff)))

times_to_burst_association(c, azimuth_times) ==
    IF ~c.has_burst_info THEN Return([i \in 1..Len(azimuth_times) |-> 0])
    ELSE IF Len(c.azimuth_start_times) = 0 THEN Raise("IndexError")
    ELSE TimesLoop(c, azimuth_times, 1, <<>>)

\* BurstBoundaries summing bursts_lines[:t] for bursts_lines[:t + 1]
BurstBoundaries_ShortSlice(c) ==
    [i \in 1..(c.num + 1) |-> IF i = 1 THEN 0 ELSE (i - 2) * c.lines_per_burst]

\* burst_boundaries = [0, L, 2L, ..., num*L]
BurstBoundaries(c) == [i \in 1..(c.num + 1) |-> (i - 1) * c.lines_per_burst]

\* PixelLoop rejecting the last boundary itself (>= for >)
RECURSIVE PixelLoop_EndExclusive(_, _, _, _)
PixelLoop_EndExclusive(c, azimuth_px_indexes, k, bursts) ==
    IF k > Len(azimuth_px_indexes) THEN Return(bursts)
    ELSE LET coord == azimuth_px_indexes[k]
             burst_boundaries == BurstBoundaries(c)
         IN  IF coord >= burst_boundaries[Len(burst_boundaries)]
             THEN Raise("CoordinatesOutOfBounds")
             ELSE LET px_diff == [i \in 1..Len(burst_boundaries) |-> coord - burst_boundaries[i]]
                  IN  PixelLoop_EndExclusive(c, azimuth_px_indexes, k + 1,
                                             Append(bursts, MaskedArgmin(px_diff)))

RECURSIVE PixelLoop(_, _, _, _)
PixelLoop(c, azimuth_px_indexes, k, bursts) ==
    IF k > Len(azimuth_px_indexes) THEN Return(bursts)
    ELSE LET coord == azimuth_px_indexes[k]
             burst_boundaries == BurstBoundaries(c)
         IN  IF coord > burst_boundaries[Len(burst_boundaries)]
             THEN Raise("CoordinatesOutOfBounds")
             ELSE LET px_diff == [i \in 1..Len(burst_boundaries) |-> coord - burst_boundaries[i]]
                  IN  PixelLoop(c, azimuth_px_indexes, k + 1, Append(bursts, MaskedArgmin(px_diff)))

pixel_to_burst_association(c, azimuth_px_indexes) ==
    IF ~c.has_burst_info THEN Return([i \in 1..Len(azimuth_px_indexes) |-> 0])
    ELSE PixelLoop(c, azimuth_px_indexes, 1, <<>>)

\* One entry of the result of ground_points_to_burst_association
NoAssociation == [is_none |-> TRUE, bursts |-> <<>>]
Association(bs) == [is_none |-> FALSE, bursts |-> bs]

\* list(np.where(check)[0]): the 0-based indices where check holds, ascending
RECURSIVE Where(_, _)
Where(check, k) ==
    IF k > Len(check) THEN <<>>
    ELSE IF check[k] THEN <<k - 1>> \o Where(check, k + 1)
    ELSE Where(check, k + 1)

\* PointAssociation keeping only the first matching burst
PointAssociation_FirstOnly(m, geo) ==
    IF geo.raised THEN NoAssociation
    ELSE LET check == [i \in 1..Len(m._burst_az_boundaries) |->
                          /\ geo.az < m._burst_az_boundaries[i][2]
                          /\ geo.az > m._burst_az_boundaries[i][1]
                          /\ geo.rng < m._burst_rng_boundaries[i][2]
                          /\ geo.rng > m._burst_rng_boundaries[i][1]]
         IN  IF \E i \in 1..Len(check) : check[i]
             THEN Association(<<Where(check, 1)[1]>>)
             ELSE NoAssociation

\* geo is what inverse_geocoding_monostatic_core did for one point: it raised
\* (the except branch stores nan, nan) or it returned (t_azmth_i, t_rng_i)
PointAssociation(m, geo) ==
    IF geo.raised THEN NoAssociation
    ELSE LET check == [i \in 1..Len(m._burst_az_boundaries) |->
                          /\ geo.az < m._burst_az_boundaries[i][2]
                          /\ geo.az > m._burst_az_boundaries[i][1]
                          /\ geo.rng < m._burst_rng_boundaries[i][2]
                          /\ geo.rng > m._burst_rng_boundaries[i][1]]
         IN  IF \E i \in 1..Len(check) : check[i]
             THEN Association(Where(check, 1))
             ELSE NoAssociation

\* ground_points_to_burst_association without the try/except around the geocoder
ground_points_to_burst_association_NoExcept(m, geos) ==
    IF \E k \in 1..Len(geos) : geos[k].raised
    THEN Raise("Exception")
    ELSE Return([k \in 1..Len(geos) |-> PointAssociation(m, geos[k])])

ground_points_to_burst_association(m, geos) ==
    Return([k \in 1..Len(geos) |-> PointAssociation(m, geos[k])])

----------------------------------------------------------------------------
(* Pixel/time conversion *)

pixel_to_times_conversion(c, m, azimuth_index, range_index, burst) ==
    LET start_time_rng == c.samples_start
        az_time ==
            IF c.num > 0 /\ burst # None
            THEN (azimuth_index - c.lines_per_burst * burst) * c.lines_step
                 + c.azimuth_start_times[burst + 1]
            ELSE azimuth_index * c.lines_step + c.lines_start
        rng_time == range_index * c.samples_step + start_time_rng
    IN  Return(<<az_time,
                 IF c.projection = "GROUND RANGE"
                 THEN evaluate_ground_to_slant(c, m._az_time_half_swath, rng_time)
                 ELSE rng_time>>)

\* times_to_pixel_conversion without the line offset of the burst
times_to_pixel_conversion_NoBurstOffset(c, m, azimuth_time, range_time, burst) ==
    LET rng_value ==
            IF c.projection = "GROUND RANGE"
            THEN evaluate_slant_to_ground(c, azimuth_time, range_time)
            ELSE range_time
        rng_idx == TrueDiv(rng_value - c.samples_start, c.samples_step)
    IN  IF c.num > 0
        THEN LET assoc == IF burst = None
                          THEN times_to_burst_association(c, <<azimuth_time>>)
                          ELSE Return(<<burst>>)
             IN  IF assoc.raised # "" THEN assoc
                 ELSE LET b == assoc.value[1]
                      IN  Return(<<TrueDiv(azimuth_time - c.azimuth_start_times[b + 1],
                                           c.lines_step),
                                   rng_idx>>)
        ELSE Return(<<TrueDiv(azimuth_time - c.lines_start, c.lines_step), rng_idx>>)

times_to_pixel_conversion(c, m, azimuth_time, range_time, burst) ==
    LET rng_value ==
            IF c.projection = "GROUND RANGE"
            THEN evaluate_slant_to_ground(c, azimuth_time, range_time)
            ELSE range_time
        rng_idx == TrueDiv(rng_value - c.samples_start, c.samples_step)
    IN  IF c.num > 0
        THEN LET assoc == IF burst = None
                          THEN times_to_burst_association(c, <<azimuth_time>>)
                          ELSE Return(<<burst>>)
             IN  IF assoc.raised # "" THEN assoc
                 ELSE LET b == assoc.value[1]
                      IN  Return(<<AddInt(TrueDiv(azimuth_time - c.azimuth_start_times[b + 1],
                                                  c.lines_step),
                                          c.lines_per_burst * b),
                                   rng_idx>>)
        ELSE Return(<<TrueDiv(azimuth_time - c.lines_start, c.lines_step), rng_idx>>)

----------------------------------------------------------------------------
(* Mid burst times and location data *)

\* the middle of the rectangle of a burst; without bursts the mid times of the
\* swath, whatever the burst. An index past the last burst is an IndexError.
get_mid_burst_times(c, m, burst) ==
    IF c.num > 0
    THEN LET layout == _get_raster_layout(c)
         IN  IF burst + 1 > Len(layout.az) THEN Raise("IndexError")
             ELSE Return(<<AddInt(TrueDiv(layout.az[burst + 1][2] - layout.az[burst + 1][1], 2),
                                  layout.az[burst + 1][1]),
                           AddInt(TrueDiv(layout.rng[burst + 1][2] - layout.rng[burst + 1][1], 2),
                                  layout.rng[burst + 1][1])>>)
    ELSE Return(<<Whole(m._az_time_half_swath), m._rng_time_half_swath>>)

\* what the trajectory gives at a time pair: the sine of the incidence angle,
\* as a rational, and the ground velocity
Geometries == {[sin_incidence |-> <<1, 2>>, v_ground |-> 1],
               [sin_incidence |-> <<1, 1>>, v_ground |-> 2]}

get_location_data(c, m, azimuth_time, range_time, geometry) ==
    Return([abs_azimuth_time |-> azimuth_time,
            abs_range_time |-> range_time,
            incidence_angle |-> geometry.sin_incidence,
            ground_velocity |-> geometry.v_ground,
            azimuth_step_m |-> c.lines_step * geometry.v_ground,
            range_step_m |->
                IF c.projection = "SLANT RANGE" THEN m._range_step_m
                ELSE RatMul(m._range_step_m, geometry.sin_incidence),
            ground_range_step_m |->
                IF c.projection = "SLANT RANGE"
                THEN RatDiv(m._range_step_m, geometry.sin_incidence)
                ELSE m._range_step_m])

\* ICEYEChannelManager.get_location_data: the range step is the stored one in
\* either projection
ICEYE_get_location_data(c, m, azimuth_time, range_time, geometry) ==
    Return([abs_azimuth_time |-> azimuth_time,
            abs_range_time |-> range_time,
            incidence_angle |-> geometry.sin_incidence,
            ground_velocity |-> geometry.v_ground,
            azimuth_step_m |-> c.lines_step * geometry.v_ground,
            range_step_m |-> m._range_step_m,
            ground_range_step_m |->
                IF c.projection = "SLANT RANGE"
                THEN RatDiv(m._range_step_m, geometry.sin_incidence)
                ELSE m._range_step_m])

----------------------------------------------------------------------------
(* Reading a block of the raster *)

\* the two format adapters; they differ in read_data and get_location_data
Adapters == {"ASAR", "ICEYE"}

\* the quantities a caller can ask for
RadiometricQuantities == {"BETA_NOUGHT", "SIGMA_NOUGHT"}

\* the outcome of read_data: the exception or the value, and the collaborators
\* it invoked on the way, in order
ReadOutcome(e, v, invoked) == [raised |-> e, value |-> v, invoked |-> invoked]

Invocation(fn, arg, quantities) == [fn |-> fn, arg |-> arg, quantities |-> quantities]

\* the raster reader: the samples of the block, scaled by the calibration
\* factor, as (lines, samples)
read_channel_data(block_to_read) ==
    [block |-> block_to_read,
     shape |-> <<block_to_read[3], block_to_read[4]>>,
     quantity |-> image_radiometric_quantity,
     incidence_angle |-> <<>>]

\* .T
Transposed(data) == [data EXCEPT !.shape = <<data.shape[2], data.shape[1]>>]

radiometric_correction(data, incidence_angle, input_quantity, output_quantity) ==
    [data EXCEPT !.quantity = output_quantity, !.incidence_angle = incidence_angle]

\* target_block with the two sizes taken the other way round
target_block_SizesSwapped(cls, c, azimuth_index, range_index, cropping_size) ==
    LET rng == IF cls = "ASAR" THEN c.samples - range_index ELSE range_index
    IN  <<azimuth_index - (cropping_size[1] \div 2),
          rng - (cropping_size[2] \div 2),
          cropping_size[1],
          cropping_size[2]>>

\* [start line, start sample, number of lines, number of samples]; cropping_size
\* is (number of samples, number of lines). The ASAR binary is written in the
\* opposite direction along range, so that adapter counts the range index from
\* the end of the axis.
target_block(cls, c, azimuth_index, range_index, cropping_size) ==
    LET rng == IF cls = "ASAR" THEN c.samples - range_index ELSE range_index
    IN  <<azimuth_index - (cropping_size[2] \div 2),
          rng - (cropping_size[1] \div 2),
          cropping_size[2],
          cropping_size[1]>>

\* the boundary checks testing the end of the block before its start
BoundaryChecks_EndsFirst(c, block) ==
    IF block[1] + block[3] > c.lines THEN "AzimuthExceedsBoundariesError"
    ELSE IF block[2] + block[4] > c.samples THEN "RangeExceedsBoundariesError"
    ELSE IF block[1] > c.lines \/ block[1] < 0 THEN "AzimuthExceedsBoundariesError"
    ELSE IF block[2] > c.samples \/ block[2] < 0 THEN "RangeExceedsBoundariesError"
    ELSE ""

\* the four raise statements of read_data, in their order; "" when none fires
BoundaryChecks(c, block) ==
    IF block[1] > c.lines \/ block[1] < 0 THEN "AzimuthExceedsBoundariesError"
    ELSE IF block[2] > c.samples \/ block[2] < 0 THEN "RangeExceedsBoundariesError"
    ELSE IF block[1] + block[3] > c.lines THEN "AzimuthExceedsBoundariesError"
    ELSE IF block[2] + block[4] > c.samples THEN "RangeExceedsBoundariesError"
    ELSE ""

\* converting whatever quantity is asked for
NeedsConversion_Always(m, output_radiometric_quantity) ==
    output_radiometric_quantity \in RadiometricQuantities

NeedsConversion(m, output_radiometric_quantity) ==
    m._radiometric_quantity # output_radiometric_quantity

\* ASARChannelManager.read_data / ICEYEChannelManager.read_data. The body never
\* looks at burst. The incidence angles are asked for the azimuth time that
\* pixel_to_times_conversion gives the centre line without a burst, and for
\* the samples of the block. A real-valued block comes back as float64 from
\* the ASAR adapter, which changes no sample value.
read_data(cls, c, m, azimuth_index, range_index, cropping_size, output_radiometric_quantity, burst) ==
    LET rng == IF cls = "ASAR" THEN c.samples - range_index ELSE range_index
        block == target_block(cls, c, azimuth_index, range_index, cropping_size)
        error == BoundaryChecks(c, block)
        data == Transposed(read_channel_data(block))
        azimuth_time == pixel_to_times_conversion(c, m, azimuth_index, rng, None).value[1]
        angles == <<azimuth_time, block[2], block[2] + block[4]>>
    IN  IF error # "" THEN ReadOutcome(error, <<>>, <<>>)
        ELSE IF NeedsConversion(m, output_radiometric_quantity)
        THEN ReadOutcome("",
                         radiometric_correction(data, angles, m._radiometric_quantity,
                                                output_radiometric_quantity),
                         <<Invocation("read_channel_data", block, <<>>),
                           Invocation("incidence_angles", angles, <<>>),
                           Invocation("radiometric_correction", <<>>,
                                      <<m._radiometric_quantity,
                                        output_radiometric_quantity>>)>>)
        ELSE ReadOutcome("", data, <<Invocation("read_channel_data", block, <<>>)>>)

----------------------------------------------------------------------------
(* Inputs of the calls *)

FirstStart(m) == m._burst_az_boundaries[1][1]
LastStart(m) == m._burst_az_boundaries[Len(m._burst_az_boundaries)][1]
RangeStart(m) == m._burst_rng_boundaries[1][1]
EndOfTimeline(c, m) == FirstStart(m) + c.num * c.lines_per_burst * c.lines_step

\* azimuth times from one tick before the first line to one tick after the
\* end of every burst window
TimeInputs(c, m) ==
    (c.lines_start - 1) ..
    (Max({m._burst_az_boundaries[i][2] : i \in 1..Len(m._burst_az_boundaries)}
         \cup {EndOfTimeline(c, m)}) + 1)

TimeProbes(c, m) ==
    {FirstStart(m) - 1, FirstStart(m), LastStart(m), EndOfTimeline(c, m), EndOfTimeline(c, m) + 1}

\* the azimuth time of every raster line, the end of every burst window and
\* one tick before the first line
AxisTimes(c, m) ==
    {m._azimuth_axis[i] : i \in 1..Len(m._azimuth_axis)}
    \cup {m._burst_az_boundaries[i][2] : i \in 1..Len(m._burst_az_boundaries)}
    \cup {c.lines_start - 1}

\* slant range of every sample
RangeInputs(c, m) == {m._slant_range_axis[i] : i \in 1..c.samples}

PixelInputs(c) == (-1)..(c.lines + 1)

PixelProbes(c) ==
    {-1, 0, c.lines_per_burst, c.num * c.lines_per_burst, c.num * c.lines_per_burst + 1}

BurstArgs(c) == {None} \cup (0..(IF c.num > 0 THEN c.num - 1 ELSE 0))

\* what the inverse geocoder can do for a ground point: raise, or return a
\* time pair on, inside or outside the burst rectangles
GeocodingFailed == [raised |-> TRUE, az |-> 0, rng |-> 0]

Geocoded(t, r) == [raised |-> FALSE, az |-> t, rng |-> r]

Geocodings(c, m) ==
    {GeocodingFailed}
    \cup {Geocoded(t, r) : t \in TimeInputs(c, m), r \in {RangeStart(m), RangeStart(m) + 1}}

GeocodingProbes(c, m) ==
    {GeocodingFailed,
     Geocoded(LastStart(m) + 1, RangeStart(m) + 1),
     Geocoded(FirstStart(m) - 1, RangeStart(m) + 1),
     Geocoded(LastStart(m) + 1, RangeStart(m))}

\* centres of the blocks to read: around the ends of the raster and at the
\* first line of the second burst
ReadAzimuthInputs(c) == {-1, 0, c.lines_per_burst, c.lines - 1, c.lines, c.lines + 1}

ReadRangeInputs(c) == {-1, 0, c.samples - 1, c.samples, c.samples + 1}

\* (number of samples, number of lines)
CroppingSizes == {<<1, 1>>, <<2, 2>>, <<1, 2>>}

\* only the ASAR adapter takes a burst
ReadBurstArgs(cls, c) ==
    IF cls = "ASAR" /\ c.num > 0 THEN {None, 0, c.num - 1} ELSE {None}

----------------------------------------------------------------------------
(* The state machine *)

Init ==
    /\ channel \in Channels \cup ChannelsWithoutBurstInfo
    /\ mgr = NotBuilt
    /\ run = NoRun
    /\ call = NoCall
    /\ threads = NoThreads
    /\ configuration = NoConfiguration
    /\ watchdog = NoWatchdog

\* ASARChannelManager(...) / ICEYEChannelManager(...)
Construct ==
    /\ mgr.state = "new"
    /\ mgr' = __init__(channel)
    /\ UNCHANGED <<channel, call, elsewhere>>

PixelToTimes ==
    /\ mgr.state = "ready"
    /\ call = NoCall
    /\ \E a \in 0..channel.lines, r \in 0..(channel.samples - 1), b \in BurstArgs(channel) :
          call' = [op |-> "pixel_to_times_conversion",
                   args |-> [azimuth_index |-> a, range_index |-> r, burst |-> b],
                   out |-> pixel_to_times_conversion(channel, mgr, a, r, b)]
    /\ UNCHANGED <<channel, mgr, elsewhere>>

TimesToPixel ==
    /\ mgr.state = "ready"
    /\ call = NoCall
    /\ \E t \in AxisTimes(channel, mgr), r \in RangeInputs(channel, mgr), b \in BurstArgs(channel) :
          call' = [op |-> "times_to_pixel_conversion",
                   args |-> [azimuth_time |-> t, range_time |-> r, burst |-> b],
                   out |-> times_to_pixel_conversion(channel, mgr, t, r, b)]
    /\ UNCHANGED <<channel, mgr, elsewhere>>

TimesToBurst ==
    /\ mgr.state = "ready"
    /\ call = NoCall
    /\ \E ts \in Batches(TimeInputs(channel, mgr), TimeProbes(channel, mgr)) :
          call' = [op |-> "times_to_burst_association",
                   args |-> [azimuth_times |-> ts],
                   out |-> times_to_burst_association(channel, ts)]
    /\ UNCHANGED <<channel, mgr, elsewhere>>

PixelToBurst ==
    /\ mgr.state = "ready"
    /\ call = NoCall
    /\ \E ps \in Batches(PixelInputs(channel), PixelProbes(channel)) :
          call' = [op |-> "pixel_to_burst_association",
                   args |-> [azimuth_px_indexes |-> ps],
                   out |-> pixel_to_burst_association(channel, ps)]
    /\ UNCHANGED <<channel, mgr, elsewhere>>

GroundPointsToBurst ==
    /\ mgr.state = "ready"
    /\ call = NoCall
    /\ \E gs \in Batches(Geocodings(channel, mgr), GeocodingProbes(channel, mgr)) :
          call' = [op |-> "ground_points_to_burst_association",
                   args |-> [geocoding |-> gs],
                   out |-> ground_points_to_burst_association(mgr, gs)]
    /\ UNCHANGED <<channel, mgr, elsewhere>>

GetMidBurstTimes ==
    /\ mgr.state = "ready"
    /\ call = NoCall
    /\ \E b \in 0..Max({channel.num, 1}) :
          call' = [op |-> "get_mid_burst_times",
                   args |-> [burst |-> b],
                   out |-> get_mid_burst_times(channel, mgr, b)]
    /\ UNCHANGED <<channel, mgr, elsewhere>>

GetLocationData ==
    /\ mgr.state = "ready"
    /\ call = NoCall
    /\ \E cls \in Adapters, t \in {FirstStart(mgr), LastStart(mgr)}, r \in {RangeStart(mgr)},
          g \in Geometries :
          call' = [op |-> "get_location_data",
                   args |-> [cls |-> cls, azimuth_time |-> t, range_time |-> r, geometry |-> g],
                   out |-> IF cls = "ICEYE"
                           THEN ICEYE_get_location_data(channel, mgr, t, r, g)
                           ELSE get_location_data(channel, mgr, t, r, g)]
    /\ UNCHANGED <<channel, mgr, elsewhere>>

ReadData ==
    /\ mgr.state = "ready"
    /\ call = NoCall
    /\ \E cls \in Adapters, a \in ReadAzimuthInputs(channel), r \in ReadRangeInputs(channel),
          size \in CroppingSizes, q \in RadiometricQuantities :
          \E b \in ReadBurstArgs(cls, channel) :
             /\ b # None => q = image_radiometric_quantity
             /\ call' = [op |-> "read_data",
                         args |-> [cls |-> cls, azimuth_index |-> a, range_index |-> r,
                                   cropping_size |-> size,
                                   output_radiometric_quantity |-> q, burst |-> b],
                         out |-> read_data(cls, channel, mgr, a, r, size, q, b)]
    /\ UNCHANGED <<channel, mgr, elsewhere>>

\* the caller takes the outcome (a value or an exception); nothing of the call
\* is kept by the manager
Discard ==
    /\ call # NoCall
    /\ call' = NoCall
    /\ UNCHANGED <<channel, mgr, elsewhere>>

Next ==
    \/ Construct
    \/ PixelToTimes
    \/ TimesToPixel
    \/ TimesToBurst
    \/ PixelToBurst
    \/ GroundPointsToBurst
    \/ GetMidBurstTimes
    \/ GetLocationData
    \/ ReadData
    \/ Discard

Spec == Init /\ [][Next]_vars

----------------------------------------------------------------------------
(* Vocabulary of the properties *)

Ready == mgr.state = "ready"

Called(op) == Ready /\ call.op = op

\* the burst a raster line belongs to; a channel without bursts is one burst
OwnBursts(c, a) == IF c.num > 0 THEN {a \div c.lines_per_burst} ELSE {0}

\* the call in the state is times_to_pixel_conversion applied to what
\* pixel_to_times_conversion returns for pixel (a, r) and burst b
IsRoundTripOf(a, r, b) ==
    /\ call.args.burst = b
    /\ <<call.args.azimuth_time, call.args.range_time>>
         = pixel_to_times_conversion(channel, mgr, a, r, b).value

RoundTripHolds ==
    \A a \in 0..(channel.lines - 1), r \in 0..(channel.samples - 1) :
        \A b \in OwnBursts(channel, a) :
            IsRoundTripOf(a, r, b) => call.out = Return(<<Whole(a), Whole(r)>>)

\* C1: in slant-range projection, converting the times of a raster pixel and
\* its burst back to a pixel returns exactly that pixel.
C1_RoundTripSlantRange ==
    (Called("times_to_pixel_conversion") /\ channel.projection = "SLANT RANGE")
        => RoundTripHolds

C1_Witness ==
    /\ Called("times_to_pixel_conversion")
    /\ channel.projection = "SLANT RANGE"
    /\ channel.num = 2 /\ channel.lines_step > 1 /\ channel.samples_step > 1
    /\ \E a \in channel.lines_per_burst..(channel.lines - 1), r \in 1..(channel.samples - 1) :
          /\ IsRoundTripOf(a, r, 1)
          /\ call.out = Return(<<Whole(a), Whole(r)>>)

\* C2: in ground-range projection, converting the times of a raster pixel and
\* its burst back to a pixel returns exactly that pixel, the slant-to-ground
\* surface being the inverse of the ground-to-slant surface at every azimuth time.
C2_RoundTripGroundRange ==
    (Called("times_to_pixel_conversion") /\ channel.projection = "GROUND RANGE")
        => RoundTripHolds

StartOf(b) == channel.azimuth_start_times[b + 1]

NominalEnd ==
    StartOf(0) + channel.num * channel.lines_per_burst * channel.lines_step

TimeOutOfBounds(t) == t < StartOf(0) \/ t > NominalEnd

\* burst b has started at t, no started burst started later, and no started
\* burst of lower index started at the same time
IsLatestStarted(b, t) ==
    /\ b \in 0..(channel.num - 1)
    /\ StartOf(b) <= t
    /\ \A j \in 0..(channel.num - 1) :
          StartOf(j) <= t =>
              \/ t - StartOf(b) < t - StartOf(j)
              \/ (StartOf(j) = StartOf(b) /\ b <= j)

C4_TimeOutOfBoundsRaises ==
    (Called("times_to_burst_association") /\ channel.num > 0)
        => /\ call.out.raised = "CoordinatesOutOfBounds"
                <=> \E k \in 1..Len(call.args.azimuth_times) :
                        TimeOutOfBounds(call.args.azimuth_times[k])
           /\ call.out.raised \in {"", "CoordinatesOutOfBounds"}
           /\ call.out.raised # "" => call.out.value = <<>>

C4_Witness ==
    /\ Called("times_to_burst_association")
    /\ channel.num > 0
    /\ call.args.azimuth_times = <<NominalEnd, NominalEnd + 1>>
    /\ call.out = Raise("CoordinatesOutOfBounds")

Contiguous ==
    \A b \in 0..(channel.num - 2) :
        StartOf(b + 1) = StartOf(b) + channel.lines_per_burst * channel.lines_step

\* the burst of an accepted time queried alone
BurstOfTime(t) == times_to_burst_association(channel, <<t>>).value[1]

Accepted(t) == times_to_burst_association(channel, <<t>>).raised = ""

\* C5: on contiguous bursts, a later accepted time never gets a lower burst
\* than an earlier one, in the same call or in another one.
C5_BurstMonotonicity ==
    (Called("times_to_burst_association") /\ channel.num > 0 /\ Contiguous
        /\ call.out.raised = "")
        => \A k1 \in 1..Len(call.args.azimuth_times) :
              /\ \A k2 \in 1..Len(call.args.azimuth_times) :
                    call.args.azimuth_times[k1] <= call.args.azimuth_times[k2]
                        => call.out.value[k1] <= call.out.value[k2]
              /\ \A t \in TimeInputs(channel, mgr) :
                    /\ (Accepted(t) /\ call.args.azimuth_times[k1] <= t)
                          => call.out.value[k1] <= BurstOfTime(t)
                    /\ (Accepted(t) /\ t <= call.args.azimuth_times[k1])
                          => BurstOfTime(t) <= call.out.value[k1]

C5_Witness ==
    /\ Called("times_to_burst_association")
    /\ channel.num = 2 /\ Contiguous
    /\ call.args.azimuth_times = <<StartOf(1) - 1>>
    /\ call.out = Return(<<0>>)
    /\ Accepted(StartOf(1)) /\ BurstOfTime(StartOf(1)) = 1

Zeros(n) == [i \in 1..n |-> 0]

\* C6: on a channel without bursts (burst count 0) the time and pixel
\* resolvers return burst 0 for every input and never raise.
C6_NoBurstsIsBurstZero ==
    /\ (Called("times_to_burst_association") /\ channel.num = 0)
          => call.out = Return(Zeros(Len(call.args.azimuth_times)))
    /\ (Called("pixel_to_burst_association") /\ channel.num = 0)
          => call.out = Return(Zeros(Len(call.args.azimuth_px_indexes)))

TotalLines == channel.num * channel.lines_per_burst

InsideLines(p) == 0 <= p /\ p < TotalLines

\* C7: with N >= 1 bursts of L lines, every pixel of [0, N*L) is accepted
\* and maps to burst floor(p / L).
C7_PixelGetsItsBurst ==
    (Called("pixel_to_burst_association") /\ channel.num > 0)
        => /\ (\A k \in 1..Len(call.args.azimuth_px_indexes) :
                  InsideLines(call.args.azimuth_px_indexes[k]))
                => call.out.raised = ""
           /\ call.out.raised = ""
                => \A k \in 1..Len(call.args.azimuth_px_indexes) :
                      InsideLines(call.args.azimuth_px_indexes[k])
                          => call.out.value[k]
                               = call.args.azimuth_px_indexes[k] \div channel.lines_per_burst

C7_Witness ==
    /\ Called("pixel_to_burst_association")
    /\ channel.num = 2 /\ channel.lines_per_burst > 1
    /\ call.args.azimuth_px_indexes = <<0, channel.lines_per_burst>>
    /\ call.out = Return(<<0, 1>>)

\* C8: pixel_to_burst_association raises CoordinatesOutOfBounds exactly when
\* some input pixel exceeds the sum of the bursts' line counts, and then
\* returns no association at all.
C8_PixelOutOfBoundsRaises ==
    Called("pixel_to_burst_association")
        => /\ call.out.raised = "CoordinatesOutOfBounds"
                <=> \E k \in 1..Len(call.args.azimuth_px_indexes) :
                        call.args.azimuth_px_indexes[k] > TotalLines
           /\ call.out.raised \in {"", "CoordinatesOutOfBounds"}
           /\ call.out.raised # "" => call.out.value = <<>>

C8_Witness ==
    /\ Called("pixel_to_burst_association")
    /\ channel.num > 0
    /\ call.args.azimuth_px_indexes = <<TotalLines, TotalLines + 1>>
    /\ call.out = Raise("CoordinatesOutOfBounds")

\* the rectangle of burst b as _get_raster_layout lays it out
AzWindow(b) == mgr._burst_az_boundaries[b + 1]
RngWindow(b) == mgr._burst_rng_boundaries[b + 1]
BurstIndices == 0..(Len(mgr._burst_az_boundaries) - 1)

StrictlyInside(g, b) ==
    /\ AzWindow(b)[1] < g.az /\ g.az < AzWindow(b)[2]
    /\ RngWindow(b)[1] < g.rng /\ g.rng < RngWindow(b)[2]

OnOrInside(g, b) ==
    /\ AzWindow(b)[1] <= g.az /\ g.az <= AzWindow(b)[2]
    /\ RngWindow(b)[1] <= g.rng /\ g.rng <= RngWindow(b)[2]

RECURSIVE Ascending(_)
Ascending(S) ==
    IF S = {} THEN <<>>
    ELSE LET lo == CHOOSE x \in S : \A y \in S : x <= y
         IN  <<lo>> \o Ascending(S \ {lo})

\* C9: a point geocoded strictly inside the rectangles of the bursts S, and
\* on or inside no other rectangle, is associated with exactly the bursts of S
\* in ascending order, and with None when S is empty.
C9_GroundPointGetsAllItsBursts ==
    Called("ground_points_to_burst_association")
        => \A k \in 1..Len(call.args.geocoding) :
              LET g == call.args.geocoding[k]
                  S == {b \in BurstIndices : StrictlyInside(g, b)}
              IN  (~g.raised /\ \A b \in BurstIndices : OnOrInside(g, b) => b \in S)
                      => call.out.value[k]
                           = IF S = {} THEN NoAssociation ELSE Association(Ascending(S))

C9_Witness ==
    /\ Called("ground_points_to_burst_association")
    /\ Len(call.args.geocoding) = 2
    /\ ~call.args.geocoding[1].raised /\ ~call.args.geocoding[2].raised
    /\ \A b \in BurstIndices :
          /\ StrictlyInside(call.args.geocoding[1], b)
          /\ ~OnOrInside(call.args.geocoding[2], b)
    /\ call.out = Return(<<Association(<<0, 1>>), NoAssociation>>)

\* C10: a batch of K ground points never raises, returns K entries in input
\* order, None where the geocoding failed, and elsewhere what the point gets
\* when queried alone.
C10_BatchToleratesFailures ==
    Called("ground_points_to_burst_association")
        => /\ call.out.raised = ""
           /\ Len(call.out.value) = Len(call.args.geocoding)
           /\ \A k \in 1..Len(call.args.geocoding) :
                 LET g == call.args.geocoding[k]
                 IN  call.out.value[k]
                       = IF g.raised THEN NoAssociation
                         ELSE ground_points_to_burst_association(mgr, <<g>>).value[1]

C10_Witness ==
    /\ Called("ground_points_to_burst_association")
    /\ Len(call.args.geocoding) = 2
    /\ call.args.geocoding[1].raised
    /\ ~call.args.geocoding[2].raised
    /\ call.out.raised = ""
    /\ call.out.value[1] = NoAssociation
    /\ ~call.out.value[2].is_none

----------------------------------------------------------------------------
(* Reading a block: vocabulary *)

BoundaryErrors == {"AzimuthExceedsBoundariesError", "RangeExceedsBoundariesError"}

\* the blocks the call handed to the raster reader, in order
BlocksRead ==
    [i \in {j \in 1..Len(call.out.invoked) : call.out.invoked[j].fn = "read_channel_data"}
        |-> call.out.invoked[i].arg]

ReadsOnly(block) ==
    /\ DOMAIN BlocksRead # {}
    /\ \A i \in DOMAIN BlocksRead : BlocksRead[i] = block

\* the block of the call in progress: first line, first sample, number of
\* lines H, number of samples W, with the range index taken as the adapter
\* takes it
RangeIndexTaken ==
    IF call.args.cls = "ASAR"
    THEN channel.samples - call.args.range_index
    ELSE call.args.range_index

BlockAsked ==
    <<call.args.azimuth_index - (call.args.cropping_size[2] \div 2),
      RangeIndexTaken - (call.args.cropping_size[1] \div 2),
      call.args.cropping_size[2],
      call.args.cropping_size[1]>>

\* the block centred on the pixel the caller named
BlockCentredOnRequest ==
    <<call.args.azimuth_index - (call.args.cropping_size[2] \div 2),
      call.args.range_index - (call.args.cropping_size[1] \div 2),
      call.args.cropping_size[2],
      call.args.cropping_size[1]>>

AzimuthStartInside(b) == 0 <= b[1] /\ b[1] <= channel.lines
RangeStartInside(b) == 0 <= b[2] /\ b[2] <= channel.samples
AzimuthEndInside(b) == b[1] + b[3] <= channel.lines
RangeEndInside(b) == b[2] + b[4] <= channel.samples

InsideRaster(b) ==
    /\ AzimuthStartInside(b)
    /\ RangeStartInside(b)
    /\ AzimuthEndInside(b)
    /\ RangeEndInside(b)

FirstViolated(b) ==
    IF ~AzimuthStartInside(b) THEN "AzimuthExceedsBoundariesError"
    ELSE IF ~RangeStartInside(b) THEN "RangeExceedsBoundariesError"
    ELSE IF ~AzimuthEndInside(b) THEN "AzimuthExceedsBoundariesError"
    ELSE "RangeExceedsBoundariesError"

\* C11: read_data hands a block to the raster reader only when the block lies
\* inside the raster (0 <= first line <= lines, 0 <= first sample <= samples,
\* first line + H <= lines, first sample + W <= samples); otherwise nothing is
\* read and the call raises the azimuth or the range boundary error, the first
\* violated condition in the order azimuth start, range start, azimuth end,
\* range end deciding which.
C11_ReadsOnlyInsideRaster ==
    Called("read_data") =>
        IF InsideRaster(BlockAsked)
        THEN /\ call.out.raised = ""
             /\ ReadsOnly(BlockAsked)
             /\ call.out.value.shape = call.args.cropping_size
        ELSE /\ call.out.raised = FirstViolated(BlockAsked)
             /\ DOMAIN BlocksRead = {}

\* a block that starts before the first sample and ends after the last line:
\* the range start is tested first
C11_Witness ==
    /\ Called("read_data")
    /\ AzimuthStartInside(BlockAsked)
    /\ ~RangeStartInside(BlockAsked)
    /\ ~AzimuthEndInside(BlockAsked)
    /\ call.out.raised = "RangeExceedsBoundariesError"
    /\ DOMAIN BlocksRead = {}

\* C12 as stated: the block read is [azimuth_index - floor(H/2),
\* range_index - floor(W/2), H, W] for every adapter, ASAR and ICEYE alike.
C12_BlockCentredOnRequest ==
    (Called("read_data") /\ call.out.raised = "") => ReadsOnly(BlockCentredOnRequest)

\* C12, amended: the block read is [azimuth_index - floor(H/2),
\* r - floor(W/2), H, W], where r is range_index for the ICEYE adapter and
\* samples - range_index for the ASAR adapter, whose binary is written in the
\* opposite direction along range.
C12_BlockPerAdapter ==
    (Called("read_data") /\ call.out.raised = "") =>
        \E r \in {IF call.args.cls = "ICEYE"
                  THEN call.args.range_index
                  ELSE channel.samples - call.args.range_index} :
            ReadsOnly(<<call.args.azimuth_index - (call.args.cropping_size[2] \div 2),
                        r - (call.args.cropping_size[1] \div 2),
                        call.args.cropping_size[2],
                        call.args.cropping_size[1]>>)

\* an ASAR read of a block with H # W whose mirrored first sample is not the
\* centred one
C12_Witness ==
    /\ Called("read_data")
    /\ call.args.cls = "ASAR"
    /\ call.out.raised = ""
    /\ call.args.cropping_size[1] # call.args.cropping_size[2]
    /\ BlockAsked # BlockCentredOnRequest
    /\ ReadsOnly(BlockAsked)

\* the rows of a burst: [burst * L, (burst + 1) * L)
InsideBurstRows(b, burst) ==
    /\ burst * channel.lines_per_burst <= b[1]
    /\ b[1] + b[3] <= (burst + 1) * channel.lines_per_burst

\* C13: when a burst index is given, the boundary checks are also evaluated
\* against the rows of that burst, so a window inside the raster that crosses
\* the boundary of the burst raises a boundary error.
C13_BurstRowsChecked ==
    (/\ Called("read_data")
     /\ call.args.burst # None
     /\ InsideRaster(BlockAsked)
     /\ ~InsideBurstRows(BlockAsked, call.args.burst))
        => call.out.raised \in BoundaryErrors

\* C14: when the quantity asked for is the native one, read_data invokes
\* neither the incidence-angle computation nor the radiometric conversion and
\* returns the sample values of the raw block read.
C14_IdentityConversion ==
    (/\ Called("read_data")
     /\ call.out.raised = ""
     /\ call.args.output_radiometric_quantity = mgr._radiometric_quantity)
        => /\ \A i \in 1..Len(call.out.invoked) :
                 call.out.invoked[i].fn = "read_channel_data"
           /\ call.out.value = Transposed(read_channel_data(BlockAsked))

C14_Witness ==
    /\ Called("read_data")
    /\ call.out.raised = ""
    /\ call.args.output_radiometric_quantity = mgr._radiometric_quantity
    /\ Len(call.out.invoked) = 1
    /\ call.out.value.quantity = image_radiometric_quantity
    /\ call.out.value.incidence_angle = <<>>

----------------------------------------------------------------------------
(* The azimuth axis *)

\* C15: the azimuth axis is burst-aware: with B > 0 bursts of L lines, entry
\* b * L + k is burst_start[b] + k * lines_step; with a burst count of 0, entry
\* k is lines_start + k * lines_step; the axis holds one time per raster line.
C15_AzimuthAxisBurstAware ==
    Ready =>
        /\ Len(mgr._azimuth_axis) = channel.lines
        /\ IF channel.num > 0
           THEN \A b \in 0..(channel.num - 1), k \in 0..(channel.lines_per_burst - 1) :
                   mgr._azimuth_axis[b * channel.lines_per_burst + k + 1]
                       = channel.azimuth_start_times[b + 1] + k * channel.lines_step
           ELSE \A k \in 0..(channel.lines - 1) :
                   mgr._azimuth_axis[k + 1] = channel.lines_start + k * channel.lines_step

\* two bursts of several lines with a gap between them: the first line of the
\* second burst carries the start time of that burst
C15_Witness ==
    /\ Ready
    /\ channel.num >= 2
    /\ channel.lines_per_burst >= 2
    /\ channel.azimuth_start_times[2]
           > channel.azimuth_start_times[1] + channel.lines_per_burst * channel.lines_step
    /\ mgr._azimuth_axis[channel.lines_per_burst + 1] = channel.azimuth_start_times[2]
    /\ mgr._azimuth_axis[channel.lines_per_burst + 2]
           = channel.azimuth_start_times[2] + channel.lines_step

----------------------------------------------------------------------------
(* Bursts that overlap, and the edges of their rectangles *)

\* the azimuth window of burst b: [start_b, start_b + L * lines_step)
WindowContains(b, t) ==
    /\ StartOf(b) <= t
    /\ t < StartOf(b) + channel.lines_per_burst * channel.lines_step

\* C19: times_to_burst_association associates a time with the first burst
\* containing it: an accepted time inside the window of one or more bursts gets
\* the lowest index among the bursts whose window contains it.
C19_TimeGetsFirstContainingBurst ==
    (Called("times_to_burst_association") /\ channel.num > 0 /\ call.out.raised = "")
        => \A k \in 1..Len(call.args.azimuth_times) :
              LET t == call.args.azimuth_times[k]
                  holders == {b \in 0..(channel.num - 1) : WindowContains(b, t)}
              IN  holders # {} =>
                      /\ call.out.value[k] \in holders
                      /\ \A b \in holders : call.out.value[k] <= b

InHalfOpenRectangle(g, b) ==
    /\ AzWindow(b)[1] <= g.az /\ g.az < AzWindow(b)[2]
    /\ RngWindow(b)[1] <= g.rng /\ g.rng < RngWindow(b)[2]

AssociatedWith(entry, b) ==
    /\ ~entry.is_none
    /\ \E i \in 1..Len(entry.bursts) : entry.bursts[i] = b

\* C20: ground_points_to_burst_association tests the half-open rectangle
\* [az_start, az_stop) x [rng_start, rng_stop): a geocoded point is associated
\* with a burst exactly when start <= t < stop on both axes.
C20_HalfOpenRectangle ==
    Called("ground_points_to_burst_association")
        => \A k \in 1..Len(call.args.geocoding) :
              LET g == call.args.geocoding[k]
              IN  ~g.raised =>
                      \A b \in BurstIndices :
                          AssociatedWith(call.out.value[k], b) <=> InHalfOpenRectangle(g, b)

----------------------------------------------------------------------------
(* The configuration and its .toml file *)

\* Python values as they sit in a dataclass field or in a toml table
PyNone == [type |-> "NoneType", v |-> ""]
PyBool(b) == [type |-> "bool", v |-> IF b THEN "True" ELSE "False"]
PyStr(x) == [type |-> "str", v |-> x]
PyPath(x) == [type |-> "Path", v |-> x]
PyEnum(cls, name) == [type |-> cls, v |-> name]
PyInt(k) == [type |-> "int", items |-> <<k>>]
PyTuple(items) == [type |-> "tuple", items |-> items]
PyList(items) == [type |-> "list", items |-> items]

\* a key a table does not hold, a table a document does not hold
Absent == [type |-> "absent", v |-> ""]
NoItems == [type |-> "absent", items |-> <<>>]
NoTable == [present |-> FALSE]

\* the names of the enumeration members and their lower case
MemberNames == <<"FINE", "COARSE", "COR", "PEAK", "BETA_NOUGHT", "GROUND_CONVERTED">>
LowerCase == <<"fine", "coarse", "cor", "peak", "beta_nought", "ground_converted">>

\* .name.lower()
name_lower(member) ==
    PyStr(LowerCase[CHOOSE i \in 1..Len(MemberNames) : MemberNames[i] = member.v])

\* cls[value.upper()]
by_upper_name(cls, value) ==
    PyEnum(cls, MemberNames[CHOOSE i \in 1..Len(LowerCase) : LowerCase[i] = value.v])

\* toml.dump and toml.load of one value: a None is not written, a tuple comes
\* back as a list
toml_value(x) == IF x = PyNone THEN Absent ELSE x

toml_array(x) ==
    IF x.type = "NoneType" THEN NoItems
    ELSE IF x.type = "tuple" THEN PyList(x.items)
    ELSE x

\* what the dataclasses of the analysis library read from a table: a list as a
\* tuple, a member by its name
library_tuple(x, default) == IF x = NoItems THEN default ELSE PyTuple(x.items)

\* the defaults of the dataclasses
DefaultConfiguration == [save_log |-> PyBool(TRUE), save_config_copy |-> PyBool(TRUE)]

PointTargetAnalysisConfig ==
    [perform_irf |-> PyBool(TRUE),
     ale_limits |-> [type |-> "NoneType", items |-> <<>>],
     irf_parameters |-> [masking_method |-> PyEnum("MaskingMethod", "PEAK")]]

SCTPointTargetAnalysisConfig ==
    [base_config |-> PointTargetAnalysisConfig,
     enable_etad_corrections |-> PyBool(FALSE),
     enable_solid_tides_correction |-> PyBool(TRUE),
     enable_plate_tectonics_correction |-> PyBool(TRUE),
     enable_sensor_specific_processing_corrections |-> PyBool(TRUE),
     enable_ionospheric_correction |-> PyBool(FALSE),
     enable_tropospheric_correction |-> PyBool(FALSE),
     ionospheric_maps_directory |-> PyNone,
     ionospheric_analysis_center |-> PyNone,
     ionospheric_tec_inc_angle_method |->
         PyEnum("TECMappingFunctionIncidenceAngleMethod", "GROUND_CONVERTED"),
     tropospheric_maps_directory |-> PyNone,
     tropospheric_map_grid_resolution |-> PyEnum("TroposphericGRIDResolution", "FINE"),
     etad_product_path |-> PyNone]

SCTRadiometricAnalysisConfig ==
    [base_config |-> [input_quantity |-> PyEnum("SARRadiometricQuantity", "BETA_NOUGHT")]]

SCTInterferometricAnalysisConfig == [base_config |-> [coherence_kernel |-> PyInt(35)]]

SCTConfiguration ==
    [general |-> DefaultConfiguration,
     point_target_analysis |-> SCTPointTargetAnalysisConfig,
     radiometric_analysis |-> SCTRadiometricAnalysisConfig,
     interferometric_analysis |-> SCTInterferometricAnalysisConfig]

\* the configurations a caller holds: the default one with some fields set
SCTConfigurations ==
    {[SCTConfiguration EXCEPT
        !.general.save_log = PyBool(log),
        !.point_target_analysis.enable_ionospheric_correction = PyBool(iono_dir # PyNone),
        !.point_target_analysis.ionospheric_maps_directory = iono_dir,
        !.point_target_analysis.ionospheric_analysis_center = center,
        !.point_target_analysis.tropospheric_maps_directory = tropo_dir,
        !.point_target_analysis.tropospheric_map_grid_resolution = resolution,
        !.point_target_analysis.etad_product_path = etad,
        !.point_target_analysis.base_config.ale_limits = ale,
        !.point_target_analysis.base_config.irf_parameters.masking_method = masking,
        !.interferometric_analysis.base_config.coherence_kernel = kernel] :
        log \in BOOLEAN,
        iono_dir \in {PyNone, PyPath("bbb")},
        center \in {PyNone, PyEnum("IonosphericAnalysisCenters", "COR")},
        tropo_dir \in {PyNone, PyPath("ccc")},
        resolution \in {PyEnum("TroposphericGRIDResolution", "FINE"),
                        PyEnum("TroposphericGRIDResolution", "COARSE")},
        etad \in {PyNone, PyPath("aaa")},
        ale \in {[type |-> "NoneType", items |-> <<>>], PyTuple(<<99, 99>>)},
        masking \in {PyNone, PyEnum("MaskingMethod", "PEAK")},
        kernel \in {PyInt(35), PyTuple(<<35, 2>>)}}

\* ConfigSupportedAnalyses, and None for the whole configuration
Selections == {"NONE", "POINT_TARGET", "RADIOMETRY", "INTERFEROMETRY"}

Suffixes == {".toml", ".txt"}

\* str(path) when there is a path
path_str(x) == IF x = PyNone THEN PyNone ELSE PyStr(x.v)

\* SCTConfiguration.dump_to_toml: the document as toml.load gives it back
dump_to_toml(self, selected) ==
    LET pta == self.point_target_analysis
        pta_base == pta.base_config
        pta_iono ==
            [ionospheric_maps_directory |-> path_str(pta.ionospheric_maps_directory),
             ionospheric_analysis_center |->
                 IF pta.ionospheric_analysis_center # PyNone
                 THEN name_lower(pta.ionospheric_analysis_center)
                 ELSE PyNone]
        pta_tropo ==
            [tropospheric_maps_directory |-> path_str(pta.tropospheric_maps_directory),
             tropospheric_map_grid_resolution |->
                 IF pta.tropospheric_map_grid_resolution # PyNone
                 THEN name_lower(pta.tropospheric_map_grid_resolution)
                 ELSE PyNone]
        pta_irf ==
            [masking_method |->
                 IF pta_base.irf_parameters.masking_method # PyNone
                 THEN name_lower(pta_base.irf_parameters.masking_method)
                 ELSE PyNone]
        ra_dict == self.radiometric_analysis.base_config
        inter_dict == self.interferometric_analysis.base_config
    IN  [general |->
             [present |-> TRUE,
              save_log |-> toml_value(self.general.save_log),
              save_config_copy |-> toml_value(self.general.save_config_copy)],
         point_target_analysis |->
             IF selected \in {"NONE", "POINT_TARGET"}
             THEN [present |-> TRUE,
                   perform_irf |-> toml_value(pta_base.perform_irf),
                   ale_validity_limits |-> toml_array(pta_base.ale_limits),
                   corrections |->
                       [present |-> TRUE,
                        enable_etad_corrections |-> toml_value(pta.enable_etad_corrections),
                        enable_solid_tides_correction |->
                            toml_value(pta.enable_solid_tides_correction),
                        enable_plate_tectonics_correction |->
                            toml_value(pta.enable_plate_tectonics_correction),
                        enable_sensor_specific_processing_corrections |->
                            toml_value(pta.enable_sensor_specific_processing_corrections),
                        enable_ionospheric_correction |->
                            toml_value(pta.enable_ionospheric_correction),
                        enable_tropospheric_correction |->
                            toml_value(pta.enable_tropospheric_correction),
                        etad_product_path |-> toml_value(path_str(pta.etad_product_path)),
                        ionosphere |->
                            IF \/ pta_iono.ionospheric_maps_directory # PyNone
                               \/ pta_iono.ionospheric_analysis_center # PyNone
                            THEN [present |-> TRUE,
                                  ionospheric_maps_directory |->
                                      toml_value(pta_iono.ionospheric_maps_directory),
                                  ionospheric_analysis_center |->
                                      toml_value(pta_iono.ionospheric_analysis_center)]
                            ELSE NoTable,
                        troposphere |->
                            IF pta_tropo.tropospheric_maps_directory # PyNone
                            THEN [present |-> TRUE,
                                  tropospheric_maps_directory |->
                                      toml_value(pta_tropo.tropospheric_maps_directory),
                                  tropospheric_map_grid_resolution |->
                                      toml_value(pta_tropo.tropospheric_map_grid_resolution)]
                            ELSE NoTable],
                   advanced_configuration |->
                       [present |-> TRUE,
                        irf_parameters |->
                            [present |-> TRUE,
                             masking_method |-> toml_value(pta_irf.masking_method)]]]
             ELSE NoTable,
         radiometric_analysis |->
             IF selected \in {"NONE", "RADIOMETRY"}
             THEN [present |-> TRUE,
                   input_quantity |-> toml_value(name_lower(ra_dict.input_quantity))]
             ELSE NoTable,
         interferometric_analysis |->
             IF selected \in {"NONE", "INTERFEROMETRY"}
             THEN [present |-> TRUE,
                   coherence_kernel |->
                       toml_array(IF inter_dict.coherence_kernel.type \notin {"tuple", "list"}
                                  THEN PyTuple(inter_dict.coherence_kernel.items
                                               \o inter_dict.coherence_kernel.items)
                                  ELSE inter_dict.coherence_kernel)]
             ELSE NoTable]

\* setattr(out, key, value) for a key the table holds
from_key(default, value) == IF value = Absent THEN default ELSE value

\* Path(value) for a key the table holds with a value that is not empty
path_from_key(default, value) ==
    IF value = Absent \/ value.v = "" THEN default ELSE PyPath(value.v)

\* SCTPointTargetAnalysisConfig.from_dict of the corrections table, the
\* ionosphere and troposphere tables merged into it; base_config is left alone
SCTPointTargetAnalysisConfig_from_dict(corrections) ==
    LET out == SCTPointTargetAnalysisConfig
        iono == corrections.ionosphere
        tropo == corrections.troposphere
    IN  [out EXCEPT
            !.enable_etad_corrections = from_key(@, corrections.enable_etad_corrections),
            !.enable_solid_tides_correction =
                from_key(@, corrections.enable_solid_tides_correction),
            !.enable_plate_tectonics_correction =
                from_key(@, corrections.enable_plate_tectonics_correction),
            !.enable_sensor_specific_processing_corrections =
                from_key(@, corrections.enable_sensor_specific_processing_corrections),
            !.enable_ionospheric_correction =
                from_key(@, corrections.enable_ionospheric_correction),
            !.enable_tropospheric_correction =
                from_key(@, corrections.enable_tropospheric_correction),
            !.etad_product_path = path_from_key(@, corrections.etad_product_path),
            !.ionospheric_maps_directory =
                IF iono.present THEN path_from_key(@, iono.ionospheric_maps_directory) ELSE @,
            !.ionospheric_analysis_center =
                IF iono.present /\ iono.ionospheric_analysis_center # Absent
                THEN by_upper_name("IonosphericAnalysisCenters",
                                   iono.ionospheric_analysis_center)
                ELSE @,
            !.tropospheric_maps_directory =
                IF tropo.present THEN path_from_key(@, tropo.tropospheric_maps_directory)
                ELSE @,
            !.tropospheric_map_grid_resolution =
                IF tropo.present /\ tropo.tropospheric_map_grid_resolution # Absent
                THEN by_upper_name("TroposphericGRIDResolution",
                                   tropo.tropospheric_map_grid_resolution)
                ELSE @]

\* PointTargetAnalysisConfig.from_dict of the analysis library, given the
\* point_target_analysis table with advanced_configuration merged into it and
\* ale_validity_limits renamed to ale_limits
PointTargetAnalysisConfig_from_dict(table) ==
    [perform_irf |-> from_key(PointTargetAnalysisConfig.perform_irf, table.perform_irf),
     ale_limits |-> library_tuple(table.ale_validity_limits,
                                  PointTargetAnalysisConfig.ale_limits),
     irf_parameters |->
         [masking_method |->
              IF table.advanced_configuration.irf_parameters.masking_method = Absent
              THEN PyNone
              ELSE by_upper_name("MaskingMethod",
                                 table.advanced_configuration.irf_parameters.masking_method)]]

\* SCTConfiguration.from_toml of a file holding the document. The documents
\* dump_to_toml writes pass the schema validation.
from_toml(file) ==
    IF file.suffix # ".toml" THEN Raise("InvalidConfigurationFile")
    ELSE LET config == file.document
             pta == config.point_target_analysis
         IN  Return(
                [general |->
                     [save_log |-> from_key(DefaultConfiguration.save_log,
                                            config.general.save_log),
                      save_config_copy |-> from_key(DefaultConfiguration.save_config_copy,
                                                    config.general.save_config_copy)],
                 point_target_analysis |->
                     IF pta.present
                     THEN [SCTPointTargetAnalysisConfig_from_dict(pta.corrections)
                              EXCEPT !.base_config = PointTargetAnalysisConfig_from_dict(pta)]
                     ELSE SCTPointTargetAnalysisConfig,
                 radiometric_analysis |->
                     IF config.radiometric_analysis.present
                     THEN [base_config |->
                              [input_quantity |->
                                   by_upper_name("SARRadiometricQuantity",
                                                 config.radiometric_analysis.input_quantity)]]
                     ELSE SCTRadiometricAnalysisConfig,
                 interferometric_analysis |->
                     IF config.interferometric_analysis.present
                     THEN [base_config |->
                              [coherence_kernel |->
                                   library_tuple(config.interferometric_analysis.coherence_kernel,
                                                 PyInt(35))]]
                     ELSE SCTInterferometricAnalysisConfig])

NoFile == [suffix |-> "", document |-> <<>>]

InitConfiguration ==
    /\ channel = [has_burst_info |-> FALSE]
    /\ mgr = NotBuilt
    /\ run = NoRun
    /\ call = NoCall
    /\ threads = NoThreads
    /\ watchdog = NoWatchdog
    /\ configuration \in {[phase |-> "held", c |-> c, selected |-> "", file |-> NoFile,
                           read |-> Return(<<>>)] : c \in SCTConfigurations}

DumpToToml ==
    /\ configuration.phase = "held"
    /\ \E selected \in Selections, suffix \in Suffixes :
          configuration' =
              [configuration EXCEPT
                  !.phase = "dumped",
                  !.selected = selected,
                  !.file = [suffix |-> suffix,
                            document |-> dump_to_toml(configuration.c, selected)]]
    /\ UNCHANGED <<channel, mgr, call, threads, watchdog, run>>

FromToml ==
    /\ configuration.phase = "dumped"
    /\ configuration' =
           [configuration EXCEPT !.phase = "read", !.read = from_toml(configuration.file)]
    /\ UNCHANGED <<channel, mgr, call, threads, watchdog, run>>

NextConfiguration == DumpToToml \/ FromToml

SpecConfiguration == InitConfiguration /\ [][NextConfiguration]_vars

\* the interferometric section with a scalar kernel k turned into the pair (k, k)
WithPairedKernel(section) ==
    [section EXCEPT
        !.base_config.coherence_kernel =
            IF @.type = "int" THEN PyTuple(@.items \o @.items) ELSE @]

\* C17: for any SCTConfiguration c, writing it with dump_to_toml (no section
\* selected) and reading the file back with from_toml yields a configuration
\* whose four sections equal those of c, a scalar coherence_kernel k being
\* read back as the pair (k, k).
C17_ConfigurationRoundTrip ==
    (/\ configuration.phase = "read"
     /\ configuration.selected = "NONE"
     /\ configuration.file.suffix = ".toml")
        => /\ configuration.read.raised = ""
           /\ configuration.read.value.general = configuration.c.general
           /\ configuration.read.value.point_target_analysis
                  = configuration.c.point_target_analysis
           /\ configuration.read.value.radiometric_analysis
                  = configuration.c.radiometric_analysis
           /\ configuration.read.value.interferometric_analysis
                  = WithPairedKernel(configuration.c.interferometric_analysis)

----------------------------------------------------------------------------
(* Waiting for a download *)

\* the files a browser leaves in the download directory: while a download is
\* going on its file ends in .crdownload or .tmp
Downloads ==
    {[stem |-> k, suffix |-> x] : k \in 1..MaxNewFiles, x \in {".crdownload", ".tmp", ".csv"}}

\* a file that was there before
OldFile == [stem |-> 0, suffix |-> ".csv"]

\* fname.endswith(".crdownload") or fname.endswith(".tmp")
IsPartial(fname) == fname.suffix = ".crdownload" \/ fname.suffix = ".tmp"

\* what one pass of the loop finds: the new files, and whether to go on waiting
NewFiles(w) == w.directory \ w.files

StillWaiting(w) ==
    \/ w.n_files # 0 /\ Cardinality(NewFiles(w)) # w.n_files
    \/ \E fname \in NewFiles(w) : IsPartial(fname)

\* the directory holds exactly n_files new files, none of them partial
DownloadComplete(w) ==
    /\ Cardinality(NewFiles(w)) = w.n_files
    /\ \A fname \in NewFiles(w) : ~IsPartial(fname)

InitWatchdog ==
    /\ channel = [has_burst_info |-> FALSE]
    /\ mgr = NotBuilt
    /\ run = NoRun
    /\ call = NoCall
    /\ threads = NoThreads
    /\ configuration = NoConfiguration
    /\ watchdog \in {[pc |-> "idle", directory |-> d, files |-> {}, n_files |-> 0,
                      timeout |-> 0, seconds |-> 0, dl_wait |-> TRUE, polls |-> <<>>,
                      result |-> FALSE] : d \in {{}, {OldFile}}}

\* download_watchdog(directory, n_files, timeout) up to the loop
WatchdogStart ==
    /\ watchdog.pc = "idle"
    /\ \E n \in 0..MaxNewFiles, t \in 0..MaxTimeout :
          watchdog' = [watchdog EXCEPT !.pc = "loop", !.files = watchdog.directory,
                                       !.n_files = n, !.timeout = t,
                                       !.seconds = 0, !.dl_wait = TRUE]
    /\ UNCHANGED <<channel, mgr, call, threads, configuration, run>>

\* one pass of the loop: a second of sleep, then a look at the directory;
\* polls keeps what each look found
WatchdogPoll ==
    /\ watchdog.pc = "loop"
    /\ watchdog.dl_wait /\ watchdog.seconds < watchdog.timeout
    /\ watchdog' = [watchdog EXCEPT !.dl_wait = StillWaiting(watchdog),
                                    !.seconds = @ + 1,
                                    !.polls = Append(@, DownloadComplete(watchdog))]
    /\ UNCHANGED <<channel, mgr, call, threads, configuration, run>>

\* the end of the loop and the return
WatchdogReturn ==
    /\ watchdog.pc = "loop"
    /\ ~(watchdog.dl_wait /\ watchdog.seconds < watchdog.timeout)
    /\ watchdog' = [watchdog EXCEPT !.pc = "done",
                                    !.result = (watchdog.seconds # watchdog.timeout)]
    /\ UNCHANGED <<channel, mgr, call, threads, configuration, run>>

\* the browser starts a download, or writes a file at once
BrowserCreates ==
    /\ watchdog.pc \in {"idle", "loop"}
    /\ \E f \in Downloads :
          /\ \A g \in watchdog.directory : g.stem # f.stem
          /\ \A k \in 1..(f.stem - 1) : \E g \in watchdog.directory : g.stem = k
          /\ watchdog' = [watchdog EXCEPT !.directory = @ \cup {f}]
    /\ UNCHANGED <<channel, mgr, call, threads, configuration, run>>

\* the browser ends a download: the partial file gets its name
BrowserCompletes ==
    /\ watchdog.pc \in {"idle", "loop"}
    /\ \E f \in watchdog.directory :
          /\ IsPartial(f)
          /\ watchdog' = [watchdog EXCEPT
                             !.directory = (@ \ {f}) \cup {[f EXCEPT !.suffix = ".csv"]}]
    /\ UNCHANGED <<channel, mgr, call, threads, configuration, run>>

NextWatchdog ==
    \/ WatchdogStart
    \/ WatchdogPoll
    \/ WatchdogReturn
    \/ BrowserCreates
    \/ BrowserCompletes

SpecWatchdog == InitWatchdog /\ [][NextWatchdog]_vars

\* some poll made within the timeout saw the download complete
SeenComplete ==
    \E i \in 1..Len(watchdog.polls) : i <= watchdog.timeout /\ watchdog.polls[i]

\* C18: download_watchdog returns True whenever, at some poll made within the
\* timeout, the directory holds exactly n_files new files and none of them ends
\* in .crdownload or .tmp; it returns False when no poll within the timeout
\* sees that; it returns after at most timeout polls.
C18_WatchdogResult ==
    watchdog.pc = "done" =>
        /\ watchdog.result = SeenComplete
        /\ Len(watchdog.polls) <= watchdog.timeout

----------------------------------------------------------------------------
(* Concurrent callers of one channel manager *)

Threads == {1, 2}

Idle == [pc |-> "idle", op |-> "", args |-> <<>>, out |-> Return(<<>>)]

\* one channel of every burst layout and projection, at the largest raster
ConcurrentChannels ==
    {c \in Channels : /\ c.num = MaxBursts
                      /\ c.lines_per_burst = MaxLinesPerBurst
                      /\ c.samples = MaxSamples
                      /\ c.lines_step = 1
                      /\ c.samples_step = 1}

\* the method op of the manager, run on the arguments args
Outcome(c, m, op, args) ==
    CASE op = "pixel_to_times_conversion" ->
            pixel_to_times_conversion(c, m, args.azimuth_index, args.range_index, args.burst)
      [] op = "times_to_pixel_conversion" ->
            times_to_pixel_conversion(c, m, args.azimuth_time, args.range_time, args.burst)
      [] op = "times_to_burst_association" ->
            times_to_burst_association(c, args.azimuth_times)
      [] op = "pixel_to_burst_association" ->
            pixel_to_burst_association(c, args.azimuth_px_indexes)
      [] op = "ground_points_to_burst_association" ->
            ground_points_to_burst_association(m, args.geocoding)
      [] op = "get_mid_burst_times" ->
            get_mid_burst_times(c, m, args.burst)
      [] op = "get_location_data" ->
            get_location_data(c, m, args.azimuth_time, args.range_time, args.geometry)
      [] op = "read_data" ->
            read_data(args.cls, c, m, args.azimuth_index, args.range_index,
                      args.cropping_size, args.output_radiometric_quantity, args.burst)

Called_(t, op, args) ==
    threads' = [threads EXCEPT ![t] = [pc |-> "called", op |-> op, args |-> args,
                                       out |-> Return(<<>>)]]

InitConcurrent ==
    /\ channel \in ConcurrentChannels
    /\ mgr = NotBuilt
    /\ run = NoRun
    /\ call = NoCall
    /\ threads = [t \in Threads |-> Idle]
    /\ configuration = NoConfiguration
    /\ watchdog = NoWatchdog

\* a caller enters a method of the manager with its arguments
Calls(t) ==
    /\ mgr.state = "ready"
    /\ threads[t].pc = "idle"
    /\ \/ \E a \in {0, channel.lines_per_burst}, b \in {None, channel.num - 1} :
             Called_(t, "pixel_to_times_conversion",
                     [azimuth_index |-> a, range_index |-> 0, burst |-> b])
       \/ \E x \in {FirstStart(mgr), LastStart(mgr)} :
             Called_(t, "times_to_pixel_conversion",
                     [azimuth_time |-> x, range_time |-> RangeStart(mgr), burst |-> None])
       \/ \E x \in {FirstStart(mgr) - 1, LastStart(mgr)} :
             Called_(t, "times_to_burst_association", [azimuth_times |-> <<x>>])
       \/ \E x \in {0, channel.lines + 1} :
             Called_(t, "pixel_to_burst_association", [azimuth_px_indexes |-> <<x>>])
       \/ \E g \in {GeocodingFailed, Geocoded(LastStart(mgr) + 1, RangeStart(mgr) + 1)} :
             Called_(t, "ground_points_to_burst_association", [geocoding |-> <<g>>])
       \/ \E b \in {0, channel.num} :
             Called_(t, "get_mid_burst_times", [burst |-> b])
       \/ \E g \in Geometries :
             Called_(t, "get_location_data",
                     [azimuth_time |-> FirstStart(mgr), range_time |-> RangeStart(mgr),
                      geometry |-> g])
       \/ \E cls \in Adapters, a \in {-1, 1}, q \in RadiometricQuantities :
             Called_(t, "read_data",
                     [cls |-> cls, azimuth_index |-> a, range_index |-> 1,
                      cropping_size |-> <<1, 1>>, output_radiometric_quantity |-> q,
                      burst |-> None])
    /\ UNCHANGED <<channel, mgr, call, configuration, watchdog, run>>

\* a method of the manager that moves the mid azimuth time while it runs
Returns_MovesHalfSwath(t) ==
    /\ threads[t].pc = "called"
    /\ threads' = [threads EXCEPT
                      ![t].pc = "done",
                      ![t].out = Outcome(channel, mgr, threads[t].op, threads[t].args)]
    /\ mgr' = [mgr EXCEPT !._az_time_half_swath = T0 - 1]
    /\ UNCHANGED <<channel, call, configuration, watchdog, run>>

\* the method runs on the state of the manager as it is and returns or raises;
\* no method assigns an attribute of the manager
Returns(t) ==
    /\ threads[t].pc = "called"
    /\ threads' = [threads EXCEPT
                      ![t].pc = "done",
                      ![t].out = Outcome(channel, mgr, threads[t].op, threads[t].args)]
    /\ UNCHANGED <<channel, mgr, call, configuration, watchdog, run>>

\* the caller takes the outcome
Takes(t) ==
    /\ threads[t].pc = "done"
    /\ threads' = [threads EXCEPT ![t] = Idle]
    /\ UNCHANGED <<channel, mgr, call, configuration, watchdog, run>>

NextConcurrent ==
    \/ Construct
    \/ \E t \in Threads : Calls(t)
    \/ \E t \in Threads : Returns(t)
    \/ \E t \in Threads : Takes(t)

SpecConcurrent == InitConcurrent /\ [][NextConcurrent]_vars

\* every call that has returned holds what the same call returns on the
\* manager as constructed, with no other call around
ReturnsAsAlone ==
    \A t \in Threads :
        threads[t].pc = "done" =>
            threads[t].out = Outcome(channel, __init__(channel), threads[t].op, threads[t].args)

\* C16: the state of the channel is read-only after construction: under any
\* sequence and any interleaving of the calls of concurrent callers, calls that
\* raise included, the azimuth axis, the range and slant-range axes, the burst
\* boundaries and the lines per burst stay as they are, and each call returns
\* what it returns when run alone.
C16_ReadOnlyAfterConstruction ==
    /\ [](Ready => ReturnsAsAlone)
    /\ [][Ready => /\ channel' = channel
                   /\ mgr'.state = "ready"
                   /\ mgr'._azimuth_axis = mgr._azimuth_axis
                   /\ mgr'._az_time_half_swath = mgr._az_time_half_swath
                   /\ mgr'._range_axis = mgr._range_axis
                   /\ mgr'._slant_range_axis = mgr._slant_range_axis
                   /\ mgr'._burst_az_boundaries = mgr._burst_az_boundaries
                   /\ mgr'._burst_rng_boundaries = mgr._burst_rng_boundaries
                   /\ mgr'._lines_per_burst_array = mgr._lines_per_burst_array]_vars

\* a call that raised has returned to one caller while the other caller is
\* inside read_data, on a manager that is as it was constructed
C16_Witness ==
    /\ Ready
    /\ mgr = __init__(channel)
    /\ threads[1].pc = "called" /\ threads[1].op = "read_data"
    /\ threads[2].pc = "done" /\ threads[2].out.raised = "CoordinatesOutOfBounds"

----------------------------------------------------------------------------
(* Metadata with a negative count *)

\* what read_channel_metadata hands over when one count of the product is
\* negative: the number of lines, of samples, of bursts or of lines per burst
MalformedChannels ==
    UNION {{[c EXCEPT !.lines = -1],
            [c EXCEPT !.samples = -1],
            [c EXCEPT !.num = -1],
            [c EXCEPT !.lines_per_burst = -1]} : c \in Channels}

Malformed(c) == c.lines < 0 \/ c.samples < 0 \/ c.num < 0 \/ c.lines_per_burst < 0

InitMalformed ==
    /\ channel \in MalformedChannels
    /\ mgr = NotBuilt
    /\ run = NoRun
    /\ call = NoCall
    /\ threads = NoThreads
    /\ configuration = NoConfiguration
    /\ watchdog = NoWatchdog

\* the constructor, then the queries of the mid times of a burst
NextMalformed ==
    \/ Construct
    \/ GetMidBurstTimes
    \/ Discard

SpecMalformed == InitMalformed /\ [][NextMalformed]_vars

\* C21: building a channel manager from metadata with a negative count (lines,
\* samples, burst count or lines per burst) fails during construction, so no
\* channel object with such metadata ever becomes available to queries.
C21_MalformedFailsAtConstruction ==
    Malformed(channel) => /\ mgr.state # "ready"
                          /\ call = NoCall

----------------------------------------------------------------------------
(* The incidence angles of a converted block *)

\* what the call asked the incidence angles for: <<azimuth time, first sample,
\* one past the last sample>>, in order
AnglesAsked ==
    [i \in {j \in 1..Len(call.out.invoked) : call.out.invoked[j].fn = "incidence_angles"}
        |-> call.out.invoked[i].arg]

Converts ==
    /\ Called("read_data")
    /\ call.out.raised = ""
    /\ call.args.output_radiometric_quantity # mgr._radiometric_quantity

\* C22: when read_data converts the radiometric quantity, the incidence angles
\* are computed at the azimuth-axis time of the centre line of the window,
\* azimuth_axis[azimuth_index], on single-burst and multi-burst channels alike,
\* and for exactly the W range samples of the block that was read.
C22_IncidenceAnglesAtWindowTime ==
    Converts =>
        /\ DOMAIN AnglesAsked # {}
        /\ \A i \in DOMAIN AnglesAsked, j \in DOMAIN BlocksRead :
              /\ AnglesAsked[i][1] = mgr._azimuth_axis[call.args.azimuth_index + 1]
              /\ AnglesAsked[i][2] = BlocksRead[j][2]
              /\ AnglesAsked[i][3] = BlocksRead[j][2] + call.args.cropping_size[1]

----------------------------------------------------------------------------
(* The mid swath of a Sentinel-1 product *)

MaxSwaths == 5
MaxSwathTime == 3

\* a dict as the sequence of its items in insertion order
Item(key, value) == [key |-> key, value |-> value]

Keys(d) == {d[i].key : i \in 1..Len(d)}

\* min(d, key=d.get) and max(d, key=d.get): the first key, in insertion order,
\* holding the least (the greatest) value
MinKey(d) ==
    d[CHOOSE i \in 1..Len(d) :
        /\ \A j \in 1..Len(d) : d[i].value <= d[j].value
        /\ \A j \in 1..(i - 1) : d[j].value # d[i].value].key

MaxKey(d) ==
    d[CHOOSE i \in 1..Len(d) :
        /\ \A j \in 1..Len(d) : d[j].value <= d[i].value
        /\ \A j \in 1..(i - 1) : d[j].value # d[i].value].key

\* d.pop(key) on a dict holding key: the other items, in their order
RECURSIVE Popped(_, _)
Popped(d, key) ==
    IF Len(d) = 0 THEN <<>>
    ELSE IF d[1].key = key THEN Tail(d)
    ELSE <<d[1]>> \o Popped(Tail(d), key)

\* the swaths of a product, each with the (azimuth, range) mid times of its
\* first burst; the swath names are 1, 2, ... in the order of the dict
SwathTimes ==
    UNION {[1..n -> {<<t, R0>> : t \in 1..MaxSwathTime}] : n \in 0..MaxSwaths}

InitMidSwath ==
    /\ channel = [has_burst_info |-> FALSE]
    /\ mgr = NotBuilt
    /\ call = NoCall
    /\ threads = NoThreads
    /\ configuration = NoConfiguration
    /\ watchdog = NoWatchdog
    /\ run \in {[pc |-> "called",
                 given |-> [i \in 1..Len(ts) |-> Item(i, ts[i])],
                 times |-> <<>>,
                 out |-> Return(<<>>)] : ts \in SwathTimes}

\* _detect_mid_swath_channel(times) up to the loop: the assertion and the
\* dict of the azimuth times
DetectMidSwathEnters ==
    /\ run.pc = "called"
    /\ run' = IF Len(run.given) % 2 # 0
              THEN [run EXCEPT !.pc = "loop",
                               !.times = [i \in 1..Len(run.given) |->
                                             Item(run.given[i].key, run.given[i].value[1])]]
              ELSE [run EXCEPT !.pc = "done", !.out = Raise("AssertionError")]
    /\ UNCHANGED <<channel, mgr, call, threads, configuration, watchdog>>

\* one pass of the loop: the keys of the least and of the greatest time are
\* looked up, then popped one after the other
DetectMidSwathIterates ==
    /\ run.pc = "loop"
    /\ Len(run.times) > 1
    /\ LET min_key == MinKey(run.times)
           max_key == MaxKey(run.times)
           after_min == Popped(run.times, min_key)
       IN  run' = IF max_key \in Keys(after_min)
                  THEN [run EXCEPT !.times = Popped(after_min, max_key)]
                  ELSE [run EXCEPT !.pc = "done", !.times = after_min,
                                   !.out = Raise("KeyError")]
    /\ UNCHANGED <<channel, mgr, call, threads, configuration, watchdog>>

\* the end of the loop and the return
DetectMidSwathReturns ==
    /\ run.pc = "loop"
    /\ Len(run.times) <= 1
    /\ run' = [run EXCEPT !.pc = "done",
                          !.out = IF Len(run.times) = 0 THEN Raise("IndexError")
                                  ELSE Return(run.times[1].key)]
    /\ UNCHANGED <<channel, mgr, call, threads, configuration, watchdog>>

NextMidSwath ==
    \/ DetectMidSwathEnters
    \/ DetectMidSwathIterates
    \/ DetectMidSwathReturns

SpecMidSwath == InitMidSwath /\ [][NextMidSwath]_vars

\* the time of swath key is the median of the times given: at most half of
\* the other swaths are earlier and at most half are later
IsMedianSwath(key) ==
    \E k \in 1..Len(run.given) :
        /\ run.given[k].key = key
        /\ 2 * Cardinality({j \in 1..Len(run.given) :
                               run.given[j].value[1] < run.given[k].value[1]})
              < Len(run.given)
        /\ 2 * Cardinality({j \in 1..Len(run.given) :
                               run.given[j].value[1] > run.given[k].value[1]})
              < Len(run.given)

\* C23: for any input with an odd number of swaths, _detect_mid_swath_channel
\* returns the swath whose first-burst azimuth start time is the median of all
\* swaths' times, whatever the order of the entries and also when several
\* swaths share the same time.
C23_MidSwathIsMedian ==
    (run.pc = "done" /\ Len(run.given) % 2 # 0)
        => /\ run.out.raised = ""
           /\ IsMedianSwath(run.out.value)

----------------------------------------------------------------------------
(* Point target analysis with corrections *)

Truthy(x) == x = PyBool(TRUE)

\* the configurations a caller can pass: every combination of the enabling
\* flags, with and without the ETAD product and the maps directories; or None
PointTargetAnalysisConfigs ==
    {[SCTPointTargetAnalysisConfig EXCEPT
         !.enable_etad_corrections = PyBool(etad),
         !.enable_solid_tides_correction = PyBool(tides),
         !.enable_plate_tectonics_correction = PyBool(plates),
         !.enable_sensor_specific_processing_corrections = PyBool(sensor),
         !.enable_ionospheric_correction = PyBool(iono),
         !.enable_tropospheric_correction = PyBool(tropo),
         !.ionospheric_maps_directory = maps,
         !.tropospheric_maps_directory = maps,
         !.etad_product_path = product] :
        etad \in BOOLEAN, tides \in BOOLEAN, plates \in BOOLEAN, sensor \in BOOLEAN,
        iono \in BOOLEAN, tropo \in BOOLEAN,
        maps \in {PyNone, PyPath("maps")}, product \in {PyNone, PyPath("etad")}}

\* the ETAD configuration update without the sensor specific corrections
etad_configuration_update_KeepsSensorSpecific(config) ==
    IF Truthy(config.enable_etad_corrections)
    THEN [config EXCEPT !.enable_solid_tides_correction = PyBool(FALSE),
                        !.enable_ionospheric_correction = PyBool(FALSE),
                        !.enable_tropospheric_correction = PyBool(FALSE)]
    ELSE config

\* the assignments under `if config.enable_etad_corrections`
etad_configuration_update(config) ==
    IF Truthy(config.enable_etad_corrections)
    THEN [config EXCEPT !.enable_solid_tides_correction = PyBool(FALSE),
                        !.enable_ionospheric_correction = PyBool(FALSE),
                        !.enable_tropospheric_correction = PyBool(FALSE),
                        !.enable_sensor_specific_processing_corrections = PyBool(FALSE)]
    ELSE config

InitPointTargetAnalysis ==
    /\ channel = [has_burst_info |-> FALSE]
    /\ mgr = NotBuilt
    /\ call = NoCall
    /\ threads = NoThreads
    /\ configuration = NoConfiguration
    /\ watchdog = NoWatchdog
    /\ run \in {[pc |-> "called",
                 given |-> given,
                 config |-> SCTPointTargetAnalysisConfig,
                 invoked |-> <<>>,
                 computed |-> {},
                 sensor_functions |-> FALSE,
                 solid_tides_column |-> PyNone,
                 merged |-> {},
                 out |-> Return(<<>>)] :
                    given \in PointTargetAnalysisConfigs \cup {PyNone}}

RunRaises(e) == [run EXCEPT !.pc = "done", !.out = Raise(e)]

Invoking(r, fn) == [r EXCEPT !.invoked = Append(@, fn)]

\* the head of point_target_analysis_with_corrections: the default
\* configuration, then the ETAD configuration update and its check
AnalysisEnters ==
    /\ run.pc = "called"
    /\ LET config == etad_configuration_update(
                         IF run.given = PyNone THEN SCTPointTargetAnalysisConfig
                         ELSE run.given)
       IN  run' = IF Truthy(config.enable_etad_corrections) /\ config.etad_product_path = PyNone
                  THEN [RunRaises("RuntimeError") EXCEPT !.config = config]
                  ELSE [run EXCEPT !.pc = "load", !.config = config]
    /\ UNCHANGED <<channel, mgr, call, threads, configuration, watchdog>>

\* product_loader and the point targets; the loader knows the product type or
\* not, and hands over the sensor specific correction functions or None
AnalysisLoadsProduct ==
    /\ run.pc = "load"
    /\ \/ run' = Invoking(RunRaises("InvalidProductType"), "product_loader")
       \/ \E functions \in BOOLEAN :
             run' = [Invoking(Invoking(run, "product_loader"),
                              "extract_point_target_data_from_source")
                        EXCEPT !.pc = "geodynamics", !.sensor_functions = functions]
    /\ UNCHANGED <<channel, mgr, call, threads, configuration, watchdog>>

\* run_compute_geodynamics_corrections: the acquisition lies within the
\* validity dates of the point targets or not
AnalysisGeodynamics ==
    /\ run.pc = "geodynamics"
    /\ \/ /\ Truthy(run.config.enable_plate_tectonics_correction)
          /\ run' = Invoking(RunRaises("RuntimeError"), "run_compute_geodynamics_corrections")
       \/ run' = [Invoking(run, "run_compute_geodynamics_corrections")
                     EXCEPT !.pc = "atmosphere",
                            !.computed =
                                @ \cup (IF Truthy(run.config.enable_plate_tectonics_correction)
                                        THEN {"plate_tectonics"} ELSE {})
                                  \cup (IF Truthy(run.config.enable_solid_tides_correction)
                                        THEN {"solid_tides"} ELSE {})]
    /\ UNCHANGED <<channel, mgr, call, threads, configuration, watchdog>>

\* run_compute_atmospheric_delays
AnalysisAtmosphere ==
    /\ run.pc = "atmosphere"
    /\ run' =
         IF \/ /\ Truthy(run.config.enable_ionospheric_correction)
               /\ run.config.ionospheric_maps_directory = PyNone
            \/ /\ Truthy(run.config.enable_tropospheric_correction)
               /\ run.config.tropospheric_maps_directory = PyNone
         THEN Invoking(RunRaises("RuntimeError"), "run_compute_atmospheric_delays")
         ELSE [Invoking(run, "run_compute_atmospheric_delays")
                  EXCEPT !.pc = "analysis",
                         !.computed =
                             @ \cup (IF Truthy(run.config.enable_ionospheric_correction)
                                     THEN {"ionosphere"} ELSE {})
                               \cup (IF Truthy(run.config.enable_tropospheric_correction)
                                     THEN {"troposphere"} ELSE {})]
    /\ UNCHANGED <<channel, mgr, call, threads, configuration, watchdog>>

\* sct_point_target_analysis and the theoretical RCS: some target is visible
\* or none is
AnalysisOfTargets ==
    /\ run.pc = "analysis"
    /\ \/ run' = Invoking(RunRaises("ValueError"), "point_target_analysis")
       \/ run' = [Invoking(run, "point_target_analysis")
                     EXCEPT !.pc = "etad",
                            !.computed =
                                @ \cup (IF /\ Truthy(run.config.enable_sensor_specific_processing_corrections)
                                           /\ run.sensor_functions
                                        THEN {"sensor_specific"} ELSE {}),
                            !.solid_tides_column = run.config.enable_solid_tides_correction]
    /\ UNCHANGED <<channel, mgr, call, threads, configuration, watchdog>>

\* the ETAD corrections and the atmospheric delays join the results, the
\* totals are summed and the results returned
AnalysisReturns ==
    /\ run.pc = "etad"
    /\ LET with_etad ==
               IF Truthy(run.config.enable_etad_corrections)
               THEN IF run.config.etad_product_path = PyNone
                    THEN RunRaises("RuntimeError")
                    ELSE [Invoking(run, "get_etad_corrections")
                             EXCEPT !.computed = @ \cup {"etad"}, !.merged = @ \cup {"etad"}]
               ELSE run
       IN  run' = IF with_etad.out.raised # "" THEN with_etad
                  ELSE [with_etad EXCEPT
                           !.pc = "done",
                           !.merged =
                               @ \cup (IF \/ Truthy(run.config.enable_ionospheric_correction)
                                          \/ Truthy(run.config.enable_tropospheric_correction)
                                       THEN {"atmospheric_delays"} ELSE {}),
                           !.out = Return(<<"data_df", "graph_data">>)]
    /\ UNCHANGED <<channel, mgr, call, threads, configuration, watchdog>>

NextPointTargetAnalysis ==
    \/ AnalysisEnters
    \/ AnalysisLoadsProduct
    \/ AnalysisGeodynamics
    \/ AnalysisAtmosphere
    \/ AnalysisOfTargets
    \/ AnalysisReturns

SpecPointTargetAnalysis == InitPointTargetAnalysis /\ [][NextPointTargetAnalysis]_vars

EtadAsked == run.given # PyNone /\ Truthy(run.given.enable_etad_corrections)

DisabledByEtad == {"solid_tides", "ionosphere", "troposphere", "sensor_specific"}

\* C24: when enable_etad_corrections is set, the run is carried out with the
\* solid-tides, ionospheric, tropospheric and sensor-specific corrections
\* disabled whatever their configured values, and if etad_product_path is None
\* a RuntimeError is raised before the product is loaded or any correction or
\* analysis is computed.
C24_EtadDisablesOtherCorrections ==
    EtadAsked =>
        /\ run.computed \cap DisabledByEtad = {}
        /\ "atmospheric_delays" \notin run.merged
        /\ run.solid_tides_column # PyBool(TRUE)
        /\ run.pc # "called" =>
              /\ ~Truthy(run.config.enable_solid_tides_correction)
              /\ ~Truthy(run.config.enable_ionospheric_correction)
              /\ ~Truthy(run.config.enable_tropospheric_correction)
              /\ ~Truthy(run.config.enable_sensor_specific_processing_corrections)
        /\ run.given.etad_product_path = PyNone =>
              /\ run.invoked = <<>>
              /\ run.computed = {}
              /\ run.pc # "called" => (run.pc = "done" /\ run.out = Raise("RuntimeError"))

\* a run with every correction enabled in the configuration, ETAD among them,
\* on a product with sensor specific functions, has returned with the ETAD and
\* plate tectonics corrections only
C24_Witness ==
    /\ EtadAsked
    /\ Truthy(run.given.enable_solid_tides_correction)
    /\ Truthy(run.given.enable_ionospheric_correction)
    /\ Truthy(run.given.enable_tropospheric_correction)
    /\ Truthy(run.given.enable_sensor_specific_processing_corrections)
    /\ run.given.ionospheric_maps_directory # PyNone
    /\ run.sensor_functions
    /\ run.pc = "done"
    /\ run.out.raised = ""
    /\ run.computed = {"plate_tectonics", "etad"}
    /\ run.solid_tides_column = PyBool(FALSE)

----------------------------------------------------------------------------
(* The range of the burst indices returned *)

\* C25: whenever pixel_to_burst_association returns without raising on a
\* channel with N >= 1 bursts, every returned index is a burst index of
\* [0, N), for every input pixel, negative pixels and the pixel equal to the
\* total line count N * lines_per_burst included.
C25_PixelBurstIndexValid ==
    (Called("pixel_to_burst_association") /\ channel.num >= 1 /\ call.out.raised = "")
        => \A k \in 1..Len(call.out.value) :
              0 <= call.out.value[k] /\ call.out.value[k] < channel.num

----------------------------------------------------------------------------
(* Times inside the windows of the bursts *)

InSomeWindow(t) == \E b \in 0..(channel.num - 1) : WindowContains(b, t)

\* C26: for any burst layout (start times non-decreasing, windows possibly
\* overlapping or separated by gaps), times_to_burst_association accepts every
\* azimuth time that lies inside the window [start_b, start_b + L * lines_step)
\* of some burst, and the burst it returns for an accepted time has a window
\* that contains that time.
C26_AcceptedTimesInTheirWindow ==
    (Called("times_to_burst_association") /\ channel.num > 0) =>
        /\ (\A k \in 1..Len(call.args.azimuth_times) :
               InSomeWindow(call.args.azimuth_times[k]))
             => call.out.raised = ""
        /\ call.out.raised = ""
             => \A k \in 1..Len(call.args.azimuth_times) :
                   WindowContains(call.out.value[k], call.args.azimuth_times[k])

----------------------------------------------------------------------------
(* The round trip without a burst *)

\* C27: on a channel with two or more bursts, the conversion without a burst
\* round-trips: for every pixel (a, r) of the raster, times_to_pixel_conversion
\* of what pixel_to_times_conversion returns for (a, r), with burst None in
\* both calls, returns (a, r), whatever the start times of the bursts.
C27_RoundTripWithoutBurst ==
    (Called("times_to_pixel_conversion") /\ channel.num >= 2) =>
        \A a \in 0..(channel.lines - 1), r \in 0..(channel.samples - 1) :
            IsRoundTripOf(a, r, None) => call.out = Return(<<Whole(a), Whole(r)>>)

----------------------------------------------------------------------------
(* The converter and the axes *)

\* the burst pixel_to_burst_association gives line a queried alone
BurstOfLine(a) == pixel_to_burst_association(channel, <<a>>)

\* C28: the converter agrees with the axes: for every line a of the azimuth
\* axis and every sample r, pixel_to_times_conversion(a, r, burst) with the
\* burst pixel_to_burst_association gives a returns the azimuth time
\* azimuth_axis[a] and the range time slant_range_axis[r].
C28_ConverterAgreesWithAxes ==
    (Called("pixel_to_times_conversion") /\ call.args.azimuth_index < Len(mgr._azimuth_axis))
        => /\ BurstOfLine(call.args.azimuth_index).raised = ""
           /\ call.args.burst = BurstOfLine(call.args.azimuth_index).value[1]
                => call.out = Return(<<mgr._azimuth_axis[call.args.azimuth_index + 1],
                                       mgr._slant_range_axis[call.args.range_index + 1]>>)

----------------------------------------------------------------------------
(* The automatic analysis of a product over a calibration site *)

MaxAnalyses == 3

\* SupportedAutomaticAnalyses: the values of the members
SupportedAutomaticAnalyses ==
    {"point_target_analysis", "nesz", "scalloping", "gamma", "interferometry"}

\* what a registry can list for a site: the values, in lower or upper case
AnalysisNames == SupportedAutomaticAnalyses \cup {"NESZ"}

\* str.lower()
lower(name) == IF name = "NESZ" THEN "nesz" ELSE name

\* a local variable of the function that no statement has bound yet
Unbound == [bound |-> FALSE, tag |-> "", analysis |-> "", iteration |-> 0]

BoundTag(tag) == [bound |-> TRUE, tag |-> tag, analysis |-> "", iteration |-> 0]

\* the results of the radiometric analysis run in an iteration of the loop
ResultsOf(analysis, iteration) ==
    [bound |-> TRUE, tag |-> "", analysis |-> analysis, iteration |-> iteration]

Written(entry, tag, results) ==
    [entry |-> entry, tag |-> tag,
     analysis |-> results.analysis, iteration |-> results.iteration]

InitAutomaticAnalysis ==
    /\ channel = [has_burst_info |-> FALSE]
    /\ mgr = NotBuilt
    /\ call = NoCall
    /\ threads = NoThreads
    /\ configuration = NoConfiguration
    /\ watchdog = NoWatchdog
    /\ run \in {[pc |-> "called",
                 supported_analyses |-> analyses,
                 entry |-> 0,
                 tag |-> Unbound,
                 rad_results |-> Unbound,
                 written |-> <<>>,
                 out |-> Return(<<>>)] :
                    analyses \in UNION {[1..n -> AnalysisNames] : n \in 0..MaxAnalyses}}

\* sct_automatic_analysis up to the loop: the product is loaded and its
\* footprint meets one calibration site, none, or several
AutomaticAnalysisEnters ==
    /\ run.pc = "called"
    /\ \/ run' = [run EXCEPT !.pc = "loop", !.entry = 1]
       \/ \E e \in {"InvalidProductType", "IntersectionNotFound", "MultipleIntersectionsFound"} :
             run' = RunRaises(e)
    /\ UNCHANGED <<channel, mgr, call, threads, configuration, watchdog>>

\* the body of the loop for the entry at hand, for an analysis that returns
AutomaticAnalysisOfEntry ==
    /\ run.pc = "loop"
    /\ run.entry <= Len(run.supported_analyses)
    /\ LET analysis == lower(run.supported_analyses[run.entry])
       IN  IF analysis = "point_target_analysis"
           THEN run' = [run EXCEPT
                           !.entry = @ + 1,
                           !.written = Append(@, Written(run.entry, "point_target_analysis",
                                                         ResultsOf(analysis, run.entry)))]
           ELSE LET tag == IF analysis = "nesz" THEN BoundTag("nesz")
                           ELSE IF analysis = "gamma" THEN BoundTag("nesz")
                           ELSE IF analysis = "scalloping" THEN BoundTag("scalloping")
                           ELSE run.tag
                    rad_results == IF analysis \in {"nesz", "gamma", "scalloping"}
                                   THEN ResultsOf(analysis, run.entry)
                                   ELSE run.rad_results
                IN  run' = IF ~rad_results.bound
                           THEN [RunRaises("UnboundLocalError") EXCEPT
                                    !.tag = tag, !.rad_results = rad_results]
                           ELSE [run EXCEPT
                                    !.entry = @ + 1,
                                    !.tag = tag,
                                    !.rad_results = rad_results,
                                    !.written = Append(@, Written(run.entry, tag.tag, rad_results))]
    /\ UNCHANGED <<channel, mgr, call, threads, configuration, watchdog>>

\* the analysis of the entry at hand raises
AutomaticAnalysisOfEntryRaises ==
    /\ run.pc = "loop"
    /\ run.entry <= Len(run.supported_analyses)
    /\ lower(run.supported_analyses[run.entry]) # "interferometry"
    /\ run' = RunRaises("RuntimeError")
    /\ UNCHANGED <<channel, mgr, call, threads, configuration, watchdog>>

\* the end of the list
AutomaticAnalysisReturns ==
    /\ run.pc = "loop"
    /\ run.entry > Len(run.supported_analyses)
    /\ run' = [run EXCEPT !.pc = "done"]
    /\ UNCHANGED <<channel, mgr, call, threads, configuration, watchdog>>

NextAutomaticAnalysis ==
    \/ AutomaticAnalysisEnters
    \/ AutomaticAnalysisOfEntry
    \/ AutomaticAnalysisOfEntryRaises
    \/ AutomaticAnalysisReturns

SpecAutomaticAnalysis == InitAutomaticAnalysis /\ [][NextAutomaticAnalysis]_vars

\* C29: the outputs written for each entry of supported_analyses are
\* attributable to that entry: the results saved in an iteration were computed
\* by the analysis of that entry in that same iteration and are written under
\* a tag naming that analysis, so no entry re-emits results or a tag left over
\* from an earlier entry and no two different analyses write under the same tag.
C29_OutputsAttributable ==
    /\ \A k \in 1..Len(run.written) :
          LET w == run.written[k]
          IN  /\ w.analysis = lower(run.supported_analyses[w.entry])
              /\ w.iteration = w.entry
              /\ w.tag = lower(run.supported_analyses[w.entry])
    /\ \A j \in 1..Len(run.written), k \in 1..Len(run.written) :
          run.written[j].tag = run.written[k].tag
              => lower(run.supported_analyses[run.written[j].entry])
                   = lower(run.supported_analyses[run.written[k].entry])

----------------------------------------------------------------------------
(* The sample spacings of the two adapters *)

\* C30: for the same projection, stored range step and incidence angle,
\* get_location_data of the ASAR and of the ICEYE adapter return the same
\* range_step_m and the same ground_range_step_m, and the two are related by
\* range_step_m = ground_range_step_m * sin(incidence_angle).
C30_SameSampleSpacings ==
    Called("get_location_data") =>
        LET a == call.args
            asar == get_location_data(channel, mgr, a.azimuth_time, a.range_time,
                                      a.geometry).value
            iceye == ICEYE_get_location_data(channel, mgr, a.azimuth_time, a.range_time,
                                             a.geometry).value
        IN  /\ asar.range_step_m = iceye.range_step_m
            /\ asar.ground_range_step_m = iceye.ground_range_step_m
            /\ call.out.value.range_step_m
                 = RatMul(call.out.value.ground_range_step_m, a.geometry.sin_incidence)

====
